---- MODULE Spec2Model ----
(***************************************************************************)
(* Offline mutation queue and sync protocol of the shopping-list PWA.      *)
(*   client : src/unnamed/part_001 (app), src/src/client/db.js (LocalDB)   *)
(*   server : src/src/worker/index.js (Cloudflare Worker + D1)             *)
(* The specifications share the server operators:                          *)
(*   Spec       one device with its Local Store, queue and sync cycles,    *)
(*              the server handling each request in one step;              *)
(*   FairSpec   the same device under fairness of timer, network, server;  *)
(*   SpecServer the server alone, several sync requests in flight, every   *)
(*              row write of a request a step of its own;                  *)
(*   SpecCalls  the server alone, whole requests of several callers to     *)
(*              several lists, one after the other;                        *)
(*   SpecReplies the device when a received body may lack fields;          *)
(*   SpecEdits  the device of a list in use, every mutation handler of     *)
(*              the page, on and off line;                                 *)
(*   SpecRemote the device while another device adds and deletes           *)
(*              categories;                                                *)
(*   SpecTeardown the device with syncNow taken one await at a time and    *)
(*              the page closed at any of them;                            *)
(*   SpecLists  the device opening one list and then another;              *)
(*   SpecShares the server alone, the owner sharing and unsharing a list   *)
(*              between the sync requests of its users.                    *)
(***************************************************************************)
EXTENDS Integers, Sequences, FiniteSets, TLC

\* ------------------------------------------------------------------ values
Null  == "null"     \* JS null (categoryId of an uncategorized item)
Undef == "undef"    \* JS undefined (a field the record does not carry)
Epoch == 0          \* the cursor '1970-01-01'
NoStamp == -1       \* data.timestamp of a body without the field (undefined)

TheList == "L1"     \* the list the device has open (currentList.id)


RECURSIVE SeqToSet(_)
SeqToSet(s) == IF s = <<>> THEN {} ELSE {Head(s)} \cup SeqToSet(Tail(s))

\* ---------------------------------------------------------------- bounds
MaxTime   == 3      \* readings of the server clock
MaxCycles == 2      \* syncNow invocations of the device in progress at once
MaxEdits  == 2      \* change records the device enqueues
MaxSyncs  == 2      \* syncNow invocations of the device that reach the fetch
MaxServed == 2     \* requests the Worker accepts (SpecServer)
MaxCalls == 2      \* requests the Worker answers (SpecCalls)

\* ------------------------------------------------------------- universes
ItemIds    == {"x1", "x2"}
CatIds     == {"c0", "c1"}
DefaultCat == "c0"                  \* the category createList makes
NewNames   == {"n1"}                \* names typed into the new-category box
Cycles     == 1..MaxCycles
Serials    == 1..MaxEdits
ClientNow  == MaxTime + 1           \* new Date() on the device
\* IndexedDB key order of the ids (string comparison)
IdRank == ("c0" :> 1) @@ ("c1" :> 2) @@ ("x1" :> 3) @@ ("x2" :> 4)

\* ----------------------------------------------------- change records
ItemRec(type, id, categoryId, text, completed, serial) ==
    [type |-> type, id |-> id, categoryId |-> categoryId, text |-> text,
     completed |-> completed, name |-> Undef, sortOrder |-> -1, order |-> <<>>,
     timestamp |-> ClientNow, serial |-> serial]

CatRec(type, id, name, sortOrder, serial) ==
    [type |-> type, id |-> id, categoryId |-> Undef, text |-> Undef,
     completed |-> FALSE, name |-> name, sortOrder |-> sortOrder, order |-> <<>>,
     timestamp |-> ClientNow, serial |-> serial]

\* the record reorderCategories queues: it has no id
OrderRec(order, serial) ==
    [type |-> "category_order", id |-> Undef, categoryId |-> Undef, text |-> Undef,
     completed |-> FALSE, name |-> Undef, sortOrder |-> -1, order |-> order,
     timestamp |-> ClientNow, serial |-> serial]

\* p.type.startsWith('category_')
IsCategoryType(t) ==
    t \in {"category_add", "category_update", "category_delete", "category_order"}

\* c.type.replace('category_', '')
StripCategory(t) ==
    CASE t = "category_add"    -> "add"
      [] t = "category_update" -> "update"
      [] t = "category_delete" -> "delete"
      [] t = "category_order"  -> "order"
      [] OTHER                 -> t

\* -------------------------------------------------- server: one row write
\* A server state is a record [items, cats]; each a function from the ids
\* that have a row to the row.  updatedAt is the clock reading a row was
\* stamped at; a category row also records which text its updated_at column
\* holds: "iso" when the Worker bound new Date().toISOString()
\* ('YYYY-MM-DDTHH:MM:SS.sssZ'), "sql" when the INSERT left the column to
\* DEFAULT CURRENT_TIMESTAMP ('YYYY-MM-DD HH:MM:SS').  Every INSERT INTO items
\* binds updated_at, so item rows are always "iso".

\* a database that accepts every item record
ItemBindAny(S, ch) == TRUE

\* D1 rejects a bound undefined value; items.category_id REFERENCES
\* categories(id); items.text is NOT NULL.
ItemBindOk(S, ch) ==
    /\ ch.text # Undef
    /\ ch.categoryId # Undef
    /\ (ch.categoryId = Null \/ ch.categoryId \in DOMAIN S.cats)

\* INSERT INTO items ... ON CONFLICT(id) DO UPDATE SET category_id, text,
\* completed, updated_at   (list_id and deleted are left as they are)
SrvItemAdd(S, listId, ch, T) ==
    IF ~ItemBindOk(S, ch) THEN S
    ELSE IF ch.id \in DOMAIN S.items
    THEN [S EXCEPT !.items[ch.id] =
            [@ EXCEPT !.categoryId = ch.categoryId, !.text = ch.text,
                      !.completed = ch.completed, !.updatedAt = T]]
    ELSE [S EXCEPT !.items = [i \in DOMAIN S.items \cup {ch.id} |->
            IF i = ch.id
            THEN [list |-> listId, categoryId |-> ch.categoryId,
                  text |-> ch.text, completed |-> ch.completed,
                  updatedAt |-> T, deleted |-> FALSE]
            ELSE S.items[i]]]

\* the item update storing the change record's own (client) timestamp
SrvItemUpdateClientStamp(S, listId, ch, T) ==
    IF ch.id \in DOMAIN S.items /\ S.items[ch.id].list = listId
    THEN [S EXCEPT !.items[ch.id] =
            [@ EXCEPT !.categoryId = ch.categoryId, !.text = ch.text,
                      !.completed = ch.completed, !.updatedAt = ch.timestamp]]
    ELSE S

\* an item update merging field by field: completed is set, the row's
\* category and text are left as they are
SrvItemUpdateCompletedOnly(S, listId, ch, T) ==
    IF ch.id \in DOMAIN S.items /\ S.items[ch.id].list = listId
    THEN [S EXCEPT !.items[ch.id] = [@ EXCEPT !.completed = ch.completed, !.updatedAt = T]]
    ELSE S

\* UPDATE items SET category_id = (change.categoryId || null), completed,
\* text, updated_at WHERE id = ? AND list_id = ?
SrvItemUpdate(S, listId, ch, T) ==
    LET cat == IF ch.categoryId = Undef THEN Null ELSE ch.categoryId
        c2  == [ch EXCEPT !.categoryId = cat]
    IN IF ~ItemBindOk(S, c2) THEN S
       ELSE IF ch.id \in DOMAIN S.items /\ S.items[ch.id].list = listId
       THEN [S EXCEPT !.items[ch.id] =
               [@ EXCEPT !.categoryId = cat, !.text = ch.text,
                         !.completed = ch.completed, !.updatedAt = T]]
       ELSE S

\* a delete that removes the row (DELETE FROM items WHERE id = ? AND list_id = ?)
SrvItemDeleteRow(S, listId, ch, T) ==
    IF ch.id \in DOMAIN S.items /\ S.items[ch.id].list = listId
    THEN [S EXCEPT !.items = [i \in DOMAIN S.items \ {ch.id} |-> S.items[i]]]
    ELSE S

\* UPDATE items SET deleted = TRUE, updated_at = ? WHERE id = ? AND list_id = ?
SrvItemDelete(S, listId, ch, T) ==
    IF ch.id \in DOMAIN S.items /\ S.items[ch.id].list = listId
    THEN [S EXCEPT !.items[ch.id] = [@ EXCEPT !.deleted = TRUE, !.updatedAt = T]]
    ELSE S

ApplyItemChange(S, listId, ch, T) ==
    CASE ch.type = "add"    -> SrvItemAdd(S, listId, ch, T)
      [] ch.type = "update" -> SrvItemUpdate(S, listId, ch, T)
      [] ch.type = "delete" -> SrvItemDelete(S, listId, ch, T)
      [] OTHER              -> S

\* the category upsert also clearing the deleted flag on conflict
SrvCatAddResurrect(S, listId, ch, T) ==
    IF ch.name = Undef THEN S
    ELSE [S EXCEPT !.cats = [c \in DOMAIN S.cats \cup {ch.id} |->
            IF c = ch.id
            THEN [list |-> listId, name |-> ch.name,
                  sortOrder |-> IF ch.sortOrder = -1 THEN 0 ELSE ch.sortOrder,
                  updatedAt |-> T, stampFmt |-> "iso", deleted |-> FALSE]
            ELSE S.cats[c]]]

\* INSERT INTO categories ... ON CONFLICT(id) DO UPDATE SET name, sort_order,
\* updated_at ; sort_order is change.sortOrder || 0 ; name is NOT NULL
SrvCatAdd(S, listId, ch, T) ==
    LET so == IF ch.sortOrder = -1 THEN 0 ELSE ch.sortOrder
    IN IF ch.name = Undef THEN S
       ELSE IF ch.id \in DOMAIN S.cats
       THEN [S EXCEPT !.cats[ch.id] =
               [@ EXCEPT !.name = ch.name, !.sortOrder = so, !.updatedAt = T,
                         !.stampFmt = "iso"]]
       ELSE [S EXCEPT !.cats = [c \in DOMAIN S.cats \cup {ch.id} |->
               IF c = ch.id
               THEN [list |-> listId, name |-> ch.name, sortOrder |-> so,
                     updatedAt |-> T, stampFmt |-> "iso", deleted |-> FALSE]
               ELSE S.cats[c]]]

\* UPDATE categories SET name, sort_order, updated_at WHERE id AND list_id
SrvCatUpdate(S, listId, ch, T) ==
    IF ch.name = Undef \/ ch.sortOrder = -1 THEN S
    ELSE IF ch.id \in DOMAIN S.cats /\ S.cats[ch.id].list = listId
    THEN [S EXCEPT !.cats[ch.id] =
            [@ EXCEPT !.name = ch.name, !.sortOrder = ch.sortOrder, !.updatedAt = T,
                      !.stampFmt = "iso"]]
    ELSE S

\* UPDATE categories SET deleted = TRUE, updated_at WHERE id AND list_id
SrvCatDelete(S, listId, ch, T) ==
    IF ch.id \in DOMAIN S.cats /\ S.cats[ch.id].list = listId
    THEN [S EXCEPT !.cats[ch.id] =
            [@ EXCEPT !.deleted = TRUE, !.updatedAt = T, !.stampFmt = "iso"]]
    ELSE S

ApplyCatChange(S, listId, ch, T) ==
    CASE ch.type = "add"    -> SrvCatAdd(S, listId, ch, T)
      [] ch.type = "update" -> SrvCatUpdate(S, listId, ch, T)
      [] ch.type = "delete" -> SrvCatDelete(S, listId, ch, T)
      [] OTHER              -> S

\* UPDATE categories SET sort_order = ?, updated_at = ? WHERE id = ? AND
\* list_id = ?   (ch.id is order[i], ch.sortOrder is i)
SrvCatOrder(S, listId, ch, T) ==
    IF ch.id \in DOMAIN S.cats /\ S.cats[ch.id].list = listId
    THEN [S EXCEPT !.cats[ch.id] =
            [@ EXCEPT !.sortOrder = ch.sortOrder, !.updatedAt = T, !.stampFmt = "iso"]]
    ELSE S

\* ------------------------------------------------ server: a sync request
\* UPDATE items SET category_id = NULL, updated_at = ? WHERE category_id = ?
\* AND list_id = ?   (REST deleteCategory)
SrvUncategorize(S, listId, ch, T) ==
    [S EXCEPT !.items = [i \in DOMAIN S.items |->
        IF S.items[i].categoryId = ch.id /\ S.items[i].list = listId
        THEN [S.items[i] EXCEPT !.categoryId = Null, !.updatedAt = T]
        ELSE S.items[i]]]

\* A write is one `await env.DB.prepare(...).bind(...).run()` of a handler.
CategoryWrites(chs) == [k \in 1..Len(chs) |-> [op |-> "category", ch |-> chs[k]]]

\* for (let i = 0; i < order.length; i++): sort_order = i WHERE id = order[i]
OrderWrites(order) ==
    [k \in 1..Len(order) |->
        [op |-> "order", ch |-> CatRec("order", order[k], Undef, k - 1, 0)]]

ItemWrites(chs) == [k \in 1..Len(chs) |-> [op |-> "item", ch |-> chs[k]]]

\* the writes of syncChanges in program order: category changes, category
\* order, item changes.  A null categoryOrder is the empty list (both skip
\* the loop).
BatchWrites(req) ==
    CategoryWrites(req.categoryChanges) \o OrderWrites(req.categoryOrder)
        \o ItemWrites(req.itemChanges)

ApplyWrite(S, listId, w, T) ==
    CASE w.op = "category"     -> ApplyCatChange(S, listId, w.ch, T)
      [] w.op = "order"        -> SrvCatOrder(S, listId, w.ch, T)
      [] w.op = "item"         -> ApplyItemChange(S, listId, w.ch, T)
      [] w.op = "uncategorize" -> SrvUncategorize(S, listId, w.ch, T)
      [] OTHER                 -> S

RECURSIVE ApplyWrites(_, _, _, _)
ApplyWrites(S, listId, ws, T) ==
    IF ws = <<>> THEN S
    ELSE ApplyWrites(ApplyWrite(S, listId, Head(ws), T), listId, Tail(ws), T)

\* syncChanges, lines "Apply category changes" to "Apply item changes"
ApplyBatch(S, listId, req, T) == ApplyWrites(S, listId, BatchWrites(req), T)

\* SELECT ... FROM items WHERE list_id = ? AND updated_at > ? , each row
\* tagged delete when its deleted flag is set, update otherwise
DeltaItems(S, listId, lastSync) ==
    [i \in {j \in DOMAIN S.items :
                S.items[j].list = listId /\ S.items[j].updatedAt > lastSync} |->
        [categoryId |-> S.items[i].categoryId, text |-> S.items[i].text,
         completed |-> S.items[i].completed, timestamp |-> S.items[i].updatedAt,
         type |-> IF S.items[i].deleted THEN "delete" ELSE "update"]]

\* updated_at > ? is a comparison of texts.  The clock readings of the model
\* are instants of one UTC day: against the cursor '1970-01-01' every stamp is
\* greater; against an ISO cursor of the day an ISO stamp compares as the
\* instants do, and a CURRENT_TIMESTAMP stamp is smaller whatever its instant
\* (the two agree up to the date, then ' ' < 'T').
StampAfter(row, lastSync) ==
    IF lastSync = Epoch THEN TRUE
    ELSE IF row.stampFmt = "sql" THEN FALSE
    ELSE row.updatedAt > lastSync

DeltaCats(S, listId, lastSync) ==
    [c \in {d \in DOMAIN S.cats :
                S.cats[d].list = listId /\ StampAfter(S.cats[d], lastSync)} |->
        [name |-> S.cats[c].name, sortOrder |-> S.cats[c].sortOrder,
         timestamp |-> S.cats[c].updatedAt,
         type |-> IF S.cats[c].deleted THEN "delete" ELSE "update"]]

Perms(A) ==
    {f \in [1..Cardinality(A) -> A] : \A a, b \in 1..Cardinality(A) : a # b => f[a] # f[b]}

\* the current order read with ORDER BY sort_order DESC
CurrentOrdersDesc(S, listId) ==
    LET live == {c \in DOMAIN S.cats : S.cats[c].list = listId /\ ~S.cats[c].deleted}
    IN {o \in Perms(live) :
          \A a, b \in 1..Len(o) : a < b => S.cats[o[a]].sortOrder >= S.cats[o[b]].sortOrder}

\* SELECT id FROM categories WHERE list_id = ? AND deleted = FALSE ORDER BY
\* sort_order ASC : rows of equal sort_order come in any order
CurrentOrders(S, listId) ==
    LET live == {c \in DOMAIN S.cats : S.cats[c].list = listId /\ ~S.cats[c].deleted}
    IN {o \in Perms(live) :
          \A a, b \in 1..Len(o) : a < b => S.cats[o[a]].sortOrder <= S.cats[o[b]].sortOrder}

\* the category names in the order of SQLite's default (BINARY) collation
NameRank ==
    ("Dairy" :> 0) @@ ("Other" :> 1) @@ ("Uncategorized" :> 2) @@ ("n1" :> 3) @@ ("n2" :> 4)

\* getList, getCategories: SELECT ... FROM categories WHERE list_id = ? AND
\* deleted = FALSE ORDER BY sort_order ASC, name ASC
ReadCategoryOrders(S, listId) ==
    LET live == {c \in DOMAIN S.cats : S.cats[c].list = listId /\ ~S.cats[c].deleted}
    IN {o \in Perms(live) :
          \A a, b \in 1..Len(o) : a < b =>
             \/ S.cats[o[a]].sortOrder < S.cats[o[b]].sortOrder
             \/ /\ S.cats[o[a]].sortOrder = S.cats[o[b]].sortOrder
                /\ NameRank[S.cats[o[a]].name] <= NameRank[S.cats[o[b]].name]}

\* the response body of syncChanges.  missing names the fields a body a
\* device received lacks (or holds with a value of another type); the Worker's
\* own bodies lack none.
SyncResponse(S, listId, lastSync, order, T) ==
    [error |-> FALSE,
     itemChanges |-> DeltaItems(S, listId, lastSync),
     categoryChanges |-> DeltaCats(S, listId, lastSync),
     categoryOrder |-> order,
     timestamp |-> T,
     missing |-> {}]

\* error(...) : a body with an error field (401, 403, 500)
ErrorResponse ==
    [error |-> TRUE, itemChanges |-> <<>>, categoryChanges |-> <<>>,
     categoryOrder |-> <<>>, timestamp |-> 0, missing |-> {}]

VARIABLES
    online,      \* navigator.onLine
    locItems,    \* IndexedDB store 'items':      id -> record
    locCats,     \* IndexedDB store 'categories': id -> record
    categories,  \* the page variable `categories` (array of category records)
    pending,     \* IndexedDB store 'pending':    key -> change record
    meta,        \* IndexedDB store 'meta':       key -> value
    cycles,      \* the syncNow invocations in progress
    srv,         \* the D1 tables items and categories
    now,         \* the last reading of the server clock
    syncs,       \* history: syncNow invocations that reached the fetch
    nextSerial,  \* history: change records enqueued so far
    received,    \* history: serials of the change records the server was sent
    reqs,        \* the requests the Worker is handling (SpecServer)
    served,      \* history: requests the Worker has accepted (SpecServer)
    call,        \* history: the last request the Worker answered (SpecCalls)
    rejected,    \* history: the request bodies the device saw answered with an error
    heard,       \* history: (list, timestamp) of the responses the device received
    listShares   \* the D1 table list_shares: (list_id, user_id)

vars == <<online, locItems, locCats, categories, pending, meta, cycles, srv,
          now, syncs, nextSerial, received, reqs, served, call, rejected, heard,
          listShares>>

\* the device's variables, the Worker's request variables
cvars == <<online, locItems, locCats, categories, pending, meta, cycles, syncs,
           nextSerial, received, rejected, heard>>
svars == <<reqs, served, call, listShares>>

\* ------------------------------------------------------- LocalDB (db.js)
RECURSIVE SortedSeq(_)
SortedSeq(A) ==
    IF A = {} THEN <<>>
    ELSE LET m == CHOOSE x \in A : \A y \in A : x <= y
         IN <<m>> \o SortedSeq(A \ {m})

\* the key of a record in store 'pending' (keyPath 'id', autoIncrement): the
\* record's own id, or for a record without id the next number of the key
\* generator (numbers are handed out in increasing order and sort before
\* every string)
KeyOf(rec) == IF rec.id = Undef THEN rec.serial ELSE 100 + IdRank[rec.id]

\* store.add(change): ConstraintError when the key is already in the store
QueueOk(pend, rec) == KeyOf(rec) \notin DOMAIN pend

QueueChange(pend, rec) == (KeyOf(rec) :> rec) @@ pend

\* store.getAll(): the records in ascending key order
GetPendingChanges(pend) ==
    LET ks == SortedSeq(DOMAIN pend) IN [k \in 1..Len(ks) |-> pend[ks[k]]]

\* store.clear()
ClearPendingChanges(pend) == <<>>

\* currentList.id: the list switchToList stored under lastUsedListId (the
\* list the device was created with when it never switched)
CurrentList(m) ==
    IF "lastUsedListId" \in DOMAIN m THEN m["lastUsedListId"] ELSE TheList

\* getMeta('lastSync') || '1970-01-01'
GetLastSync(m) ==
    IF "lastSync" \in DOMAIN m /\ m["lastSync"] # NoStamp THEN m["lastSync"] ELSE Epoch

\* a put that stores the device's clock instead of the value
SetMetaClientClock(m, key, value) == (key :> ClientNow) @@ m

SetMeta(m, key, value) == (key :> value) @@ m

\* store.getAll() without the filter
GetAllItems(items) == DOMAIN items

\* getItems(): the records without a deleted flag
GetItems(items) == {i \in DOMAIN items : ~items[i].deleted}

RECURSIVE SortCats(_, _)
SortCats(ids, cats) ==
    IF ids = {} THEN <<>>
    ELSE LET m == CHOOSE x \in ids : \A y \in ids :
                     \/ cats[x].sortOrder < cats[y].sortOrder
                     \/ cats[x].sortOrder = cats[y].sortOrder /\ IdRank[x] <= IdRank[y]
         IN <<[id |-> m, name |-> cats[m].name, sortOrder |-> cats[m].sortOrder,
               updatedAt |-> cats[m].updatedAt]>> \o SortCats(ids \ {m}, cats)

\* getCategories(): not deleted, sorted by sortOrder (getAll is in key order
\* and the sort is stable)
GetCategories(cats) == SortCats({c \in DOMAIN cats : ~cats[c].deleted}, cats)

\* ------------------------------------------------- the request body
\* the body of the request syncNow sends (filter / map / pop)
BuildRequest(drained, lastSync) ==
    LET cs == SelectSeq(drained,
                 LAMBDA p : IsCategoryType(p.type) /\ p.type # "category_order")
        os == SelectSeq(drained, LAMBDA p : p.type = "category_order")
    IN [itemChanges     |-> SelectSeq(drained, LAMBDA p : ~IsCategoryType(p.type)),
        categoryChanges |-> [k \in 1..Len(cs) |->
                                [cs[k] EXCEPT !.type = StripCategory(cs[k].type)]],
        categoryOrder   |-> IF os = <<>> THEN <<>> ELSE os[Len(os)].order,
        lastSync        |-> lastSync]

EmptyRequest ==
    [itemChanges |-> <<>>, categoryChanges |-> <<>>, categoryOrder |-> <<>>,
     lastSync |-> Epoch]

\* ------------------------------------------------------ sync cycles
IdleCycle ==
    [pc |-> "idle", drained |-> <<>>, cursor0 |-> <<>>, req |-> EmptyRequest,
     resp |-> ErrorResponse, edits |-> {}, k |-> 0, list |-> TheList]

IdleSlots(cy) == {c \in Cycles : cy[c].pc = "idle"}

FreeSlot(cy) == CHOOSE c \in IdleSlots(cy) : \A d \in IdleSlots(cy) : c <= d

\* syncNow() up to the fetch: drain the queue, read the cursor, send
SyncNow(cy, pend, m) ==
    LET drained == GetPendingChanges(pend)
    IN [cy EXCEPT ![FreeSlot(cy)] =
          [pc |-> "sending", drained |-> drained, cursor0 |-> m,
           req |-> BuildRequest(drained, GetLastSync(m)),
           resp |-> ErrorResponse, edits |-> {}, k |-> 0, list |-> CurrentList(m)]]

\* a trigger that calls syncNow() whatever navigator.onLine says, into a
\* syncNow without the onLine guard
SyncAlways(cy, pend, m) == SyncNow(cy, pend, m)

\* if (navigator.onLine) syncNow()
SyncIfOnline(cy, pend, m) == IF online THEN SyncNow(cy, pend, m) ELSE cy

\* the model holds at most MaxCycles invocations at once, MaxSyncs in all
CanSync == IdleSlots(cycles) # {} /\ syncs < MaxSyncs

CanTrigger == ~online \/ CanSync

SyncsIfOnline == IF online THEN syncs + 1 ELSE syncs

\* history: the ids the user edited while the cycle's request was in flight
RecordEdit(cy, id) ==
    [c \in Cycles |->
        IF cy[c].pc \in {"sending", "answered"}
        THEN [cy[c] EXCEPT !.edits = @ \cup {id}]
        ELSE cy[c]]

\* ------------------------------------------- requests in the Worker
\* The Worker handles requests concurrently: a handler runs from one await to
\* the next, and the D1 statements of different requests interleave.
Reqs == {1, 2}

IdleReq ==
    [pc |-> "idle", kind |-> "none", T |-> 0, req |-> EmptyRequest, writes |-> <<>>,
     k |-> 1, resp |-> ErrorResponse, stamps |-> {}]

\* ------------------------------------------------------------- Init
\* createList: the list and its default category exist on the server, the
\* device saved the category, opened the list (loadData) and is online.
\* (IdleCall: no request answered yet)
IdleCall ==
    [n |-> 0, kind |-> "none", user |-> "none", list |-> "none",
     req |-> EmptyRequest, cid |-> Null, T |-> 0, access |-> FALSE,
     before |-> [items |-> <<>>, cats |-> <<>>], resp |-> ErrorResponse,
     target |-> "none", revoked |-> {},
     prev |-> [kind |-> "none", list |-> "none", access |-> FALSE, T |-> 0,
               deleted |-> {}, order |-> <<>>]]

Init ==
    /\ online = TRUE
    /\ locItems = <<>>
    /\ locCats = (DefaultCat :> [name |-> "Uncategorized", sortOrder |-> 0,
                                 updatedAt |-> ClientNow, deleted |-> FALSE])
    /\ categories = GetCategories(locCats)
    /\ pending = <<>>
    /\ meta = <<>>
    /\ cycles = [c \in Cycles |-> IdleCycle]
    /\ srv = [items |-> <<>>,
              cats  |-> (DefaultCat :> [list |-> TheList, name |-> "Uncategorized",
                                        sortOrder |-> 0, updatedAt |-> 1,
                                        stampFmt |-> "sql", deleted |-> FALSE])]
    /\ now = 1
    /\ syncs = 0
    /\ nextSerial = 0
    /\ received = {}
    /\ rejected = {}
    /\ heard = {}
    /\ listShares = {<<"L1", "u2">>}
    /\ reqs = [r \in Reqs |-> IdleReq]
    /\ served = 0
    /\ call = IdleCall

\* ------------------------------------------------- user mutations (app)
FreshItemIds == ItemIds \ (DOMAIN locItems \cup DOMAIN srv.items)
FreshCatIds  == CatIds \ (DOMAIN locCats \cup DOMAIN srv.cats)

LocalItem(categoryId, text, completed) ==
    [categoryId |-> categoryId, text |-> text, completed |-> completed,
     updatedAt |-> ClientNow, deleted |-> FALSE]

\* saveItem({ id, deleted: true, updatedAt })
Tombstone ==
    [categoryId |-> Undef, text |-> Undef, completed |-> FALSE,
     updatedAt |-> ClientNow, deleted |-> TRUE]

RecordEdits(cy, ids) ==
    [c \in Cycles |->
        IF cy[c].pc \in {"sending", "answered"}
        THEN [cy[c] EXCEPT !.edits = @ \cup ids]
        ELSE cy[c]]

\* the end of every mutation handler: if (navigator.onLine) syncNow()
ThenSyncAll(ids) ==
    /\ cycles' = SyncIfOnline(RecordEdits(cycles, ids), pending', meta)
    /\ syncs' = SyncsIfOnline

ThenSync(id) == ThenSyncAll({id})

\* addItem with a category picked in the dropdown ('' picks categories[0]).
\* The item id is new (generateId), so its key is not in the queue.
AddItem(id, choice) ==
    /\ nextSerial < MaxEdits
    /\ id \in FreshItemIds
    /\ choice \in {""} \cup {categories[k].id : k \in 1..Len(categories)}
    /\ CanTrigger
    /\ LET categoryId == IF choice # "" THEN choice
                         ELSE IF Len(categories) > 0 THEN categories[1].id ELSE Null
       IN /\ locItems' = (id :> LocalItem(categoryId, "milk", FALSE)) @@ locItems
          /\ pending' = QueueChange(pending,
                            ItemRec("add", id, categoryId, "milk", FALSE, nextSerial + 1))
    /\ ThenSync(id)
    /\ nextSerial' = nextSerial + 1
    /\ UNCHANGED <<online, locCats, categories, meta, srv, now, received, rejected, heard>>
    /\ UNCHANGED svars

\* addItem with '+ New category...': an existing category of that name is
\* reused, otherwise a category is created and queued before the item.
AddItemNewCategory(id, cid, name) ==
    /\ id \in FreshItemIds
    /\ name \in NewNames
    /\ CanTrigger
    /\ LET vis == GetCategories(locCats)
           hit == {k \in 1..Len(vis) : vis[k].name = name}
       IN IF hit # {}
          THEN LET categoryId == vis[CHOOSE k \in hit : \A j \in hit : k <= j].id
               IN /\ nextSerial < MaxEdits
                  /\ cid = categoryId
                  /\ locItems' = (id :> LocalItem(categoryId, "milk", FALSE)) @@ locItems
                  /\ pending' = QueueChange(pending,
                          ItemRec("add", id, categoryId, "milk", FALSE, nextSerial + 1))
                  /\ nextSerial' = nextSerial + 1
                  /\ UNCHANGED <<locCats, categories>>
          ELSE LET maxOrder == IF Len(categories) > 0
                               THEN CHOOSE m \in {categories[k].sortOrder : k \in 1..Len(categories)} :
                                       \A k \in 1..Len(categories) : categories[k].sortOrder <= m
                               ELSE -1
               IN /\ nextSerial + 2 <= MaxEdits
                  /\ cid \in FreshCatIds
                  /\ locCats' = (cid :> [name |-> name, sortOrder |-> maxOrder + 1,
                                         updatedAt |-> ClientNow, deleted |-> FALSE]) @@ locCats
                  /\ categories' = Append(categories,
                          [id |-> cid, name |-> name, sortOrder |-> maxOrder + 1,
                           updatedAt |-> ClientNow])
                  /\ locItems' = (id :> LocalItem(cid, "milk", FALSE)) @@ locItems
                  /\ pending' = QueueChange(
                          QueueChange(pending,
                              CatRec("category_add", cid, name, maxOrder + 1, nextSerial + 1)),
                          ItemRec("add", id, cid, "milk", FALSE, nextSerial + 2))
                  /\ nextSerial' = nextSerial + 2
    /\ ThenSync(id)
    /\ UNCHANGED <<online, meta, srv, now, received, rejected, heard>>
    /\ UNCHANGED svars

\* toggleItem: the Local Store is written first; queueChange rejects when the
\* queue already holds a record of this id, and the handler ends there.
ToggleItem(id) ==
    /\ nextSerial < MaxEdits
    /\ id \in GetItems(locItems)
    /\ CanTrigger
    /\ LET item == [locItems[id] EXCEPT !.completed = ~@, !.updatedAt = ClientNow]
           rec  == ItemRec("update", id, item.categoryId, item.text, item.completed,
                           nextSerial + 1)
       IN /\ locItems' = [locItems EXCEPT ![id] = item]
          /\ IF QueueOk(pending, rec)
             THEN /\ pending' = QueueChange(pending, rec)
                  /\ nextSerial' = nextSerial + 1
                  /\ ThenSync(id)
             ELSE /\ UNCHANGED <<pending, nextSerial, syncs>>
                  /\ cycles' = RecordEdit(cycles, id)
    /\ UNCHANGED <<online, locCats, categories, meta, srv, now, received, rejected, heard>>
    /\ UNCHANGED svars

\* deleteItem: a tombstone in the Local Store, a delete record in the queue
DeleteItem(id) ==
    /\ nextSerial < MaxEdits
    /\ id \in GetItems(locItems)
    /\ CanTrigger
    /\ LET rec == ItemRec("delete", id, Undef, Undef, FALSE, nextSerial + 1)
       IN /\ locItems' = [locItems EXCEPT ![id] = Tombstone]
          /\ IF QueueOk(pending, rec)
             THEN /\ pending' = QueueChange(pending, rec)
                  /\ nextSerial' = nextSerial + 1
                  /\ ThenSync(id)
             ELSE /\ UNCHANGED <<pending, nextSerial, syncs>>
                  /\ cycles' = RecordEdit(cycles, id)
    /\ UNCHANGED <<online, locCats, categories, meta, srv, now, received, rejected, heard>>
    /\ UNCHANGED svars

\* ------------------------------------------------------ sync triggers
\* setInterval(syncNow, 10000)
TimerSync ==
    /\ online
    /\ CanSync
    /\ cycles' = SyncNow(cycles, pending, meta)
    /\ syncs' = syncs + 1
    /\ UNCHANGED <<online, locItems, locCats, categories, pending, meta, srv, now,
                   nextSerial, received, rejected, heard>>
    /\ UNCHANGED svars

\* the service worker posts SYNC_NOW
SwSyncNow ==
    /\ online
    /\ CanSync
    /\ cycles' = SyncNow(cycles, pending, meta)
    /\ syncs' = syncs + 1
    /\ UNCHANGED <<online, locItems, locCats, categories, pending, meta, srv, now,
                   nextSerial, received, rejected, heard>>
    /\ UNCHANGED svars

\* switchToList(listInfo): the list is opened again from the list menu; the
\* page variable is reloaded and startSync() calls syncNow().  The meta keys
\* it writes (lastUsedListId, savedLists) are not keys the sync reads.
SwitchToList ==
    /\ CanTrigger
    /\ categories' = GetCategories(locCats)
    /\ cycles' = SyncIfOnline(cycles, pending, meta)
    /\ syncs' = SyncsIfOnline
    /\ UNCHANGED <<online, locItems, locCats, pending, meta, srv, now, nextSerial,
                   received, rejected, heard>>
    /\ UNCHANGED svars

\* window 'online' event
GoOnline ==
    /\ ~online
    /\ CanSync
    /\ online' = TRUE
    /\ cycles' = SyncNow(cycles, pending, meta)
    /\ syncs' = syncs + 1
    /\ UNCHANGED <<locItems, locCats, categories, pending, meta, srv, now,
                   nextSerial, received, rejected, heard>>
    /\ UNCHANGED svars

GoOffline ==
    /\ online
    /\ online' = FALSE
    /\ UNCHANGED <<locItems, locCats, categories, pending, meta, cycles, srv, now,
                   syncs, nextSerial, received, rejected, heard>>
    /\ UNCHANGED svars

\* ------------------------------------------- the server answers (Spec)
\* the fields a received body may lack
Shapes == {{"itemChanges"}, {"categoryChanges"}, {"timestamp"}}

\* new Date(): the last reading of the clock or a later one
ClockReadings == {t \in {now, now + 1} : t <= MaxTime}

\* syncChanges as one step: stamp T, apply the batch, compute the delta
ServerHandle(c, T) ==
    /\ cycles[c].pc = "sending"
    /\ T \in ClockReadings
    /\ now' = T
    /\ LET S2 == ApplyBatch(srv, TheList, cycles[c].req, T)
       IN /\ srv' = S2
          /\ \E o \in CurrentOrders(S2, TheList) :
                cycles' = [cycles EXCEPT
                    ![c].pc = "answered",
                    ![c].resp = SyncResponse(S2, TheList, cycles[c].req.lastSync, o, T)]
    /\ received' = received \cup
            {cycles[c].drained[k].serial : k \in 1..Len(cycles[c].drained)}
    /\ UNCHANGED <<online, locItems, locCats, categories, pending, meta, syncs, nextSerial,
                   rejected, heard>>
    /\ UNCHANGED svars

\* authenticateRequest or checkListAccess fails: a body with an error field
ServerReject(c) ==
    /\ cycles[c].pc = "sending"
    /\ cycles' = [cycles EXCEPT ![c].pc = "answered", ![c].resp = ErrorResponse]
    /\ UNCHANGED <<online, locItems, locCats, categories, pending, meta, srv, now,
                   syncs, nextSerial, received, rejected, heard>>
    /\ UNCHANGED svars

\* another device's sync request toggles or deletes an item of the list
RemoteSync(id, type, T) ==
    /\ id \in DOMAIN srv.items
    /\ ~srv.items[id].deleted
    /\ type \in {"update", "delete"}
    /\ T \in ClockReadings
    /\ T > now
    /\ now' = T
    /\ srv' = ApplyItemChange(srv, TheList,
                 [type |-> type, id |-> id, categoryId |-> srv.items[id].categoryId,
                  text |-> srv.items[id].text, completed |-> ~srv.items[id].completed,
                  timestamp |-> ClientNow], T)
    /\ UNCHANGED <<online, locItems, locCats, categories, pending, meta, cycles,
                   syncs, nextSerial, received, rejected, heard>>
    /\ UNCHANGED svars

\* ------------------------------------------- syncNow after the fetch
\* fetch rejects (request or response lost): catch, 'Sync failed'
NetFail(c) ==
    /\ cycles[c].pc \in {"sending", "answered"}
    /\ cycles' = [cycles EXCEPT ![c] = IdleCycle]
    /\ UNCHANGED <<online, locItems, locCats, categories, pending, meta, srv, now,
                   syncs, nextSerial, received, rejected, heard>>
    /\ UNCHANGED svars

\* if (data.error) throw: catch, 'Sync failed'
SyncError(c) ==
    /\ cycles[c].pc = "answered"
    /\ cycles[c].resp.error
    /\ cycles' = [cycles EXCEPT ![c] = IdleCycle]
    /\ rejected' = rejected \cup {cycles[c].req}
    /\ UNCHANGED <<online, locItems, locCats, categories, pending, meta, srv, now,
                   syncs, nextSerial, received, heard>>
    /\ UNCHANGED svars

\* for (const change of data.itemChanges): deleteItem or saveItem; a null
\* categoryId keeps the stored record's categoryId
ApplyItemDelta(items, delta) ==
    LET dels == {i \in DOMAIN delta : delta[i].type = "delete"}
    IN [i \in (DOMAIN items \cup DOMAIN delta) \ dels |->
          IF i \in DOMAIN delta
          THEN [categoryId |-> IF delta[i].categoryId # Null THEN delta[i].categoryId
                               ELSE IF i \in DOMAIN items THEN items[i].categoryId
                               ELSE Null,
                text |-> delta[i].text, completed |-> delta[i].completed,
                updatedAt |-> delta[i].timestamp, deleted |-> FALSE]
          ELSE items[i]]

\* for (const change of data.categoryChanges): deleteCategory or saveCategory
ApplyCatDelta(cats, delta) ==
    LET dels == {c \in DOMAIN delta : delta[c].type = "delete"}
    IN [c \in (DOMAIN cats \cup DOMAIN delta) \ dels |->
          IF c \in DOMAIN delta
          THEN [name |-> delta[c].name, sortOrder |-> delta[c].sortOrder,
                updatedAt |-> delta[c].timestamp, deleted |-> FALSE]
          ELSE cats[c]]

\* for i: cat = categories.find(id === order[i]); cat.sortOrder = i;
\* saveCategory(cat)   -- `categories` is the page variable, not yet reloaded
ApplyLocalOrder(cats, mem, order) ==
    LET hit == {order[k] : k \in 1..Len(order)} \cap {mem[k].id : k \in 1..Len(mem)}
        IndexOf(id) == CHOOSE k \in 1..Len(order) : order[k] = id
        MemOf(id) == mem[CHOOSE k \in 1..Len(mem) : mem[k].id = id]
    IN [c \in DOMAIN cats \cup hit |->
          IF c \in hit
          THEN [name |-> MemOf(c).name, sortOrder |-> IndexOf(c) - 1,
                updatedAt |-> MemOf(c).updatedAt, deleted |-> FALSE]
          ELSE cats[c]]

\* a body that is not the Worker's reaches the page (await response.json()):
\* it has no error field and lacks the fields of miss
ServerMalformed(c, miss) ==
    /\ cycles[c].pc = "sending"
    /\ miss \in Shapes
    /\ \E o \in CurrentOrders(srv, TheList) :
          cycles' = [cycles EXCEPT
              ![c].pc = "answered",
              ![c].resp =
                  [SyncResponse(srv, TheList, cycles[c].req.lastSync, o, now) EXCEPT
                      !.missing = miss,
                      !.itemChanges = IF "itemChanges" \in miss THEN <<>> ELSE @,
                      !.categoryChanges = IF "categoryChanges" \in miss THEN <<>> ELSE @,
                      !.timestamp = IF "timestamp" \in miss THEN NoStamp ELSE @]]
    /\ UNCHANGED <<online, locItems, locCats, categories, pending, meta, srv, now,
                   syncs, nextSerial, received, rejected, heard>>
    /\ UNCHANGED svars

\* for (const change of data.itemChanges) throws when the field is not an
\* array, before any write; for (const change of data.categoryChanges) throws
\* after the item loop has written.  catch: 'Sync failed'.
SyncApplyThrows(c) ==
    /\ cycles[c].pc = "answered"
    /\ ~cycles[c].resp.error
    /\ cycles[c].resp.missing \cap {"itemChanges", "categoryChanges"} # {}
    /\ locItems' = IF "itemChanges" \in cycles[c].resp.missing THEN locItems
                   ELSE ApplyItemDelta(locItems, cycles[c].resp.itemChanges)
    /\ cycles' = [cycles EXCEPT ![c] = IdleCycle]
    /\ UNCHANGED <<online, locCats, categories, pending, meta, srv, now, syncs,
                   nextSerial, received, rejected, heard>>
    /\ UNCHANGED svars

\* the response is written to the Local Store; categories is reloaded
SyncApply(c) ==
    /\ cycles[c].pc = "answered"
    /\ ~cycles[c].resp.error
    /\ cycles[c].resp.missing \cap {"itemChanges", "categoryChanges"} = {}
    /\ locItems' = ApplyItemDelta(locItems, cycles[c].resp.itemChanges)
    /\ locCats' = ApplyLocalOrder(ApplyCatDelta(locCats, cycles[c].resp.categoryChanges),
                                  categories, cycles[c].resp.categoryOrder)
    /\ categories' = GetCategories(locCats')
    /\ cycles' = [cycles EXCEPT ![c].pc = "applying"]
    /\ UNCHANGED <<online, pending, meta, srv, now, syncs, nextSerial, received, rejected, heard>>
    /\ UNCHANGED svars

\* clearPendingChanges(); setMeta('lastSync', data.timestamp)
SyncCommit(c) ==
    /\ cycles[c].pc = "applying"
    /\ pending' = ClearPendingChanges(pending)
    /\ meta' = SetMeta(meta, "lastSync", cycles[c].resp.timestamp)
    /\ cycles' = [cycles EXCEPT ![c] = IdleCycle]
    /\ UNCHANGED <<online, locItems, locCats, categories, srv, now, syncs, nextSerial,
                   received, rejected, heard>>
    /\ UNCHANGED svars

\* ------------------------------------------------------------- Spec
Times == 1..MaxTime

Next ==
    \/ \E id \in ItemIds, choice \in CatIds \cup {""} : AddItem(id, choice)
    \/ \E id \in ItemIds, cid \in CatIds, name \in NewNames : AddItemNewCategory(id, cid, name)
    \/ \E id \in ItemIds : ToggleItem(id)
    \/ \E id \in ItemIds : DeleteItem(id)
    \/ TimerSync
    \/ SwSyncNow
    \/ SwitchToList
    \/ GoOnline
    \/ GoOffline
    \/ \E c \in Cycles, T \in Times : ServerHandle(c, T)
    \/ \E c \in Cycles : ServerReject(c)
    \/ \E id \in ItemIds, type \in {"update", "delete"}, T \in Times : RemoteSync(id, type, T)
    \/ \E c \in Cycles : NetFail(c)
    \/ \E c \in Cycles : SyncError(c)
    \/ \E c \in Cycles : SyncApply(c)
    \/ \E c \in Cycles : SyncCommit(c)

Spec == Init /\ [][Next]_vars

\* ------------------------------------------------------ SpecReplies
\* the device of Spec when the bodies it receives may be of unexpected shape
NextReplies ==
    \/ \E id \in ItemIds, choice \in CatIds \cup {""} : AddItem(id, choice)
    \/ \E id \in ItemIds : ToggleItem(id)
    \/ TimerSync
    \/ \E c \in Cycles, T \in Times : ServerHandle(c, T)
    \/ \E c \in Cycles, miss \in Shapes : ServerMalformed(c, miss)
    \/ \E c \in Cycles : NetFail(c)
    \/ \E c \in Cycles : SyncApplyThrows(c)
    \/ \E c \in Cycles : SyncApply(c)
    \/ \E c \in Cycles : SyncCommit(c)

SpecReplies == Init /\ [][NextReplies]_vars

\* ------------------------------------------------------------ FairSpec
\* The device adding items on and off line, and its sync cycles, for ever.
\* The model's budget of syncNow invocations is given back once no cycle is
\* in progress, so the timer keeps firing; the server's clock stands still
\* (a behaviour of Spec in which every request is stamped the same reading).
Quiesce ==
    /\ syncs > 0
    /\ \A c \in Cycles : cycles[c].pc = "idle"
    /\ syncs' = 0
    /\ UNCHANGED <<online, locItems, locCats, categories, pending, meta, cycles, srv,
                   now, nextSerial, received, rejected, heard>>
    /\ UNCHANGED svars

NextFair ==
    \/ \E id \in ItemIds, choice \in CatIds \cup {""} : AddItem(id, choice)
    \/ TimerSync
    \/ GoOnline
    \/ GoOffline
    \/ \E c \in Cycles : ServerHandle(c, now)
    \/ \E c \in Cycles : ServerReject(c)
    \/ \E c \in Cycles : NetFail(c)
    \/ \E c \in Cycles : SyncError(c)
    \/ \E c \in Cycles : SyncApply(c)
    \/ \E c \in Cycles : SyncCommit(c)
    \/ Quiesce

\* the timer keeps firing, the device comes back online, the server
\* eventually answers a request, the answer eventually arrives and the
\* page's code runs on
Fairness ==
    /\ SF_vars(TimerSync)
    /\ WF_vars(GoOnline)
    /\ WF_vars(Quiesce)
    /\ \A c \in Cycles : SF_vars(ServerHandle(c, now))
    /\ \A c \in Cycles : WF_vars(SyncError(c))
    /\ \A c \in Cycles : SF_vars(SyncApply(c))
    /\ \A c \in Cycles : WF_vars(SyncCommit(c))

FairSpec == Init /\ [][NextFair]_vars /\ Fairness

\* ---------------------------------------------------------- SpecServer
\* The list as a first device left it: the default category, a second
\* category and one item, all stamped by the request that wrote them.
InitServer ==
    /\ online = TRUE
    /\ locItems = <<>>
    /\ locCats = <<>>
    /\ categories = <<>>
    /\ pending = <<>>
    /\ meta = <<>>
    /\ cycles = [c \in Cycles |-> IdleCycle]
    /\ syncs = 0
    /\ nextSerial = 0
    /\ received = {}
    /\ rejected = {}
    /\ heard = {}
    /\ listShares = {<<"L1", "u2">>}
    /\ srv = [items |-> ("x1" :> [list |-> TheList, categoryId |-> "c0",
                                  text |-> "milk", completed |-> FALSE,
                                  updatedAt |-> 1, deleted |-> FALSE]),
              cats  |-> ("c0" :> [list |-> TheList, name |-> "Uncategorized",
                                  sortOrder |-> 0, updatedAt |-> 1,
                                  stampFmt |-> "sql", deleted |-> FALSE])
                        @@ ("c1" :> [list |-> TheList, name |-> "n1",
                                     sortOrder |-> 1, updatedAt |-> 1,
                                     stampFmt |-> "iso", deleted |-> FALSE])]
    /\ now = 1
    /\ reqs = [r \in Reqs |-> IdleReq]
    /\ served = 0
    /\ call = IdleCall

\* request bodies a device posts to /api/list/:id/sync
UpdA ==
    [EmptyRequest EXCEPT
        !.itemChanges = <<ItemRec("update", "x1", "c0", "milk", TRUE, 0)>>]

UpdB ==
    [EmptyRequest EXCEPT
        !.itemChanges = <<ItemRec("update", "x1", "c1", "eggs", FALSE, 0)>>]

DelAdd ==
    [EmptyRequest EXCEPT
        !.itemChanges = <<ItemRec("delete", "x2", Undef, Undef, FALSE, 0),
                          ItemRec("add", "x2", "c0", "eggs", FALSE, 0)>>]

CatBatch ==
    [EmptyRequest EXCEPT
        !.categoryChanges = <<CatRec("update", "c0", "Other", 1, 0),
                              CatRec("delete", "c1", Undef, -1, 0),
                              CatRec("add", "c1", "n2", -1, 0)>>,
        !.categoryOrder = <<"c1", "c0">>]

Batches == {UpdA, UpdB, DelAdd, CatBatch}

Orders == {<<"c1", "c0">>}

FreeReqs == {r \in Reqs : reqs[r].pc \in {"idle", "done"}}

\* history: the updated_at values a statement left in the rows it changed
StampsOf(S, S2) ==
    {S2.items[i].updatedAt : i \in {j \in DOMAIN S2.items :
                                        j \notin DOMAIN S.items \/ S2.items[j] # S.items[j]}}
    \cup
    {S2.cats[c].updatedAt : c \in {d \in DOMAIN S2.cats :
                                       d \notin DOMAIN S.cats \/ S2.cats[d] # S.cats[d]}}

\* a handler up to its first statement: the body is parsed and the time is
\* read once (new Date().toISOString())
Accept(r, kind, req, writes, T) ==
    /\ served < MaxServed
    /\ FreeReqs # {}
    /\ r = CHOOSE q \in FreeReqs : \A p \in FreeReqs : q <= p
    /\ T \in ClockReadings
    /\ now' = T
    /\ reqs' = [reqs EXCEPT ![r] =
            [pc |-> "writing", kind |-> kind, T |-> T, req |-> req, writes |-> writes,
             k |-> 1, resp |-> ErrorResponse, stamps |-> {}]]
    /\ served' = served + 1

\* POST /api/list/:id/sync : syncChanges up to the first statement.  The
\* cursor is the epoch or the timestamp of an earlier response.
SyncArrive(r, batch, lastSync, T) ==
    /\ lastSync \in {Epoch, now}
    /\ Accept(r, "sync", [batch EXCEPT !.lastSync = lastSync], BatchWrites(batch), T)
    /\ UNCHANGED <<srv, cvars, call, listShares>>

\* PUT /api/list/:id/categories/order : updateCategoryOrder
RestUpdateCategoryOrder(r, order, T) ==
    /\ Accept(r, "order", EmptyRequest, OrderWrites(order), T)
    /\ UNCHANGED <<srv, cvars, call, listShares>>

\* DELETE /api/list/:id/categories/:cid : deleteCategory, two statements
RestDeleteCategory(r, cid, T) ==
    /\ Accept(r, "deleteCategory", EmptyRequest,
              <<[op |-> "category", ch |-> CatRec("delete", cid, Undef, -1, 0)],
                [op |-> "uncategorize", ch |-> CatRec("delete", cid, Undef, -1, 0)]>>, T)
    /\ UNCHANGED <<srv, cvars, call, listShares>>

\* DELETE /api/list/:id/items/:iid : deleteItem, one statement
RestDeleteItem(r, id, T) ==
    /\ Accept(r, "deleteItem", EmptyRequest,
              <<[op |-> "item", ch |-> ItemRec("delete", id, Undef, Undef, FALSE, 0)]>>, T)
    /\ UNCHANGED <<srv, cvars, call, listShares>>

\* one await env.DB.prepare(...).bind(...).run() of the handler
DbRun(r) ==
    /\ reqs[r].pc = "writing"
    /\ LET S2 == ApplyWrite(srv, TheList, reqs[r].writes[reqs[r].k], reqs[r].T)
       IN /\ srv' = S2
          /\ reqs' = [reqs EXCEPT
                ![r].k = @ + 1,
                ![r].stamps = @ \cup StampsOf(srv, S2),
                ![r].pc = IF reqs[r].k = Len(reqs[r].writes) THEN "select" ELSE "writing"]
    /\ UNCHANGED <<now, served, cvars, call, listShares>>

\* syncChanges after the loops: the delta, the current order, the response
SyncSelect(r) ==
    /\ reqs[r].pc = "select"
    /\ reqs[r].kind = "sync"
    /\ \E o \in CurrentOrders(srv, TheList) :
          reqs' = [reqs EXCEPT
              ![r].pc = "done",
              ![r].resp = SyncResponse(srv, TheList, reqs[r].req.lastSync, o, reqs[r].T)]
    /\ UNCHANGED <<srv, now, served, cvars, call, listShares>>

\* return json({ success: true, ... })
RestRespond(r) ==
    /\ reqs[r].pc = "select"
    /\ reqs[r].kind # "sync"
    /\ reqs' = [reqs EXCEPT
          ![r].pc = "done",
          ![r].resp = [ErrorResponse EXCEPT !.error = FALSE, !.timestamp = reqs[r].T]]
    /\ UNCHANGED <<srv, now, served, cvars, call, listShares>>

NextServer ==
    \/ \E r \in Reqs, b \in Batches, ls \in 0..MaxTime, T \in Times : SyncArrive(r, b, ls, T)
    \/ \E r \in Reqs, o \in Orders, T \in Times : RestUpdateCategoryOrder(r, o, T)
    \/ \E r \in Reqs, cid \in CatIds, T \in Times : RestDeleteCategory(r, cid, T)
    \/ \E r \in Reqs, id \in ItemIds, T \in Times : RestDeleteItem(r, id, T)
    \/ \E r \in Reqs : DbRun(r)
    \/ \E r \in Reqs : SyncSelect(r)
    \/ \E r \in Reqs : RestRespond(r)

SpecServer == InitServer /\ [][NextServer]_vars

\* ------------------------------------- the Worker, one request at a time
\* SpecCalls: whole requests of several callers to several lists, each
\* handled from its access check to its response before the next arrives.

\* rows of the tables lists (id -> owner_id) and list_shares (list_id,
\* user_id); no list has the id NoList
OtherList == "L2"
NoList == "L9"
Users == {"u1", "u2", "u3"}
ListOwner == (TheList :> "u1") @@ (OtherList :> "u2")
ListShares == {<<TheList, "u2">>}

\* an access check that only looks for the list's row
CheckListExists(listId, userId) == listId \in DOMAIN ListOwner

\* checkListAccess: the list's row, then owner, then collaborator
CheckListAccess(listId, userId) ==
    /\ listId \in DOMAIN ListOwner
    /\ \/ ListOwner[listId] = userId
       \/ <<listId, userId>> \in listShares

\* the (caller, list) pairs of the requests
Callers ==
    {<<"u1", TheList>>, <<"u2", TheList>>, <<"u2", OtherList>>,
     <<"u3", TheList>>, <<"u1", OtherList>>, <<"u1", NoList>>}

\* request bodies
Poll == EmptyRequest

CatDel ==
    [EmptyRequest EXCEPT
        !.categoryChanges = <<CatRec("delete", "c1", Undef, -1, 0)>>]

AddInC1 ==
    [EmptyRequest EXCEPT
        !.itemChanges = <<ItemRec("add", "x2", "c1", "eggs", FALSE, 0)>>]

Reorder == [EmptyRequest EXCEPT !.categoryOrder = <<"c1", "c0">>]

\* the second record names a category that has no row
Mixed ==
    [EmptyRequest EXCEPT
        !.itemChanges = <<ItemRec("add", "x2", "c0", "eggs", FALSE, 0),
                          ItemRec("update", "x1", "c9", "bad", TRUE, 0),
                          ItemRec("delete", "x1", Undef, Undef, FALSE, 0)>>]

\* records for ids that may have no row
Missing ==
    [EmptyRequest EXCEPT
        !.categoryChanges = <<CatRec("update", "c2", "n2", 2, 0),
                              CatRec("delete", "c3", Undef, -1, 0)>>,
        !.itemChanges = <<ItemRec("update", "x2", "c0", "eggs", TRUE, 0),
                          ItemRec("delete", "x3", Undef, Undef, FALSE, 0)>>]

\* category records whose sortOrder differs from their place in the order list
Renumber ==
    [EmptyRequest EXCEPT
        !.categoryChanges = <<CatRec("update", "c0", "Other", 5, 0),
                              CatRec("add", "c2", "n2", 7, 0)>>,
        !.categoryOrder = <<"c2", "c1", "c0">>,
        !.itemChanges = <<ItemRec("add", "x2", "c2", "eggs", FALSE, 0)>>]

Bodies == {Poll, CatDel, AddInC1, Reorder, Mixed, Missing, Renumber}

\* the requests to /sync: who posts which body to which list
Requests ==
    ({<<"u1", TheList>>} \X Bodies)
    \cup ({<<"u2", TheList>>} \X {Poll, CatDel})
    \cup ({<<"u2", OtherList>>} \X {Poll, AddInC1})
    \cup ({<<"u3", TheList>>, <<"u1", OtherList>>, <<"u1", NoList>>} \X {CatDel, AddInC1})

\* the cursor of a request: '1970-01-01' or the timestamp of one of the last
\* responses the device received (the meta key lastSync is one for all lists)
Cursors == {Epoch, now - 1, now}

\* the categories a request asks to delete
DeletedCats(c) ==
    IF c.kind = "deleteCategory" THEN {c.cid}
    ELSE {c.req.categoryChanges[k].id :
            k \in {j \in 1..Len(c.req.categoryChanges) :
                      c.req.categoryChanges[j].type = "delete"}}

\* what the next call remembers of this one
Remembered == [kind |-> call.kind, list |-> call.list, access |-> call.access,
               T |-> call.T, deleted |-> DeletedCats(call),
               order |-> call.req.categoryOrder]

\* the state after createList of OtherList at reading 2 (its default category
\* is inserted without updated_at), TheList created at reading 1 and since
\* given category c1 and item x1 by a sync
InitCalls ==
    /\ online = TRUE
    /\ locItems = <<>>
    /\ locCats = <<>>
    /\ categories = <<>>
    /\ pending = <<>>
    /\ meta = <<>>
    /\ cycles = [c \in Cycles |-> IdleCycle]
    /\ syncs = 0
    /\ nextSerial = 0
    /\ received = {}
    /\ rejected = {}
    /\ heard = {}
    /\ listShares = {<<"L1", "u2">>}
    /\ srv = [items |-> ("x1" :> [list |-> TheList, categoryId |-> "c1",
                                  text |-> "milk", completed |-> FALSE,
                                  updatedAt |-> 1, deleted |-> FALSE])
                        @@ ("y1" :> [list |-> OtherList, categoryId |-> "d0",
                                     text |-> "tea", completed |-> FALSE,
                                     updatedAt |-> 2, deleted |-> FALSE]),
              cats  |-> ("c0" :> [list |-> TheList, name |-> "Uncategorized",
                                  sortOrder |-> 0, updatedAt |-> 1,
                                  stampFmt |-> "sql", deleted |-> FALSE])
                        @@ ("c1" :> [list |-> TheList, name |-> "n1",
                                     sortOrder |-> 1, updatedAt |-> 1,
                                     stampFmt |-> "iso", deleted |-> FALSE])
                        @@ ("d0" :> [list |-> OtherList, name |-> "Uncategorized",
                                     sortOrder |-> 0, updatedAt |-> 2,
                                     stampFmt |-> "sql", deleted |-> FALSE])]
    /\ now = 2
    /\ reqs = [r \in Reqs |-> IdleReq]
    /\ served = 0
    /\ call = IdleCall

\* POST /api/list/:id/sync, the whole of syncChanges
SyncChanges(user, listId, body, lastSync, T) ==
    /\ call.n < MaxCalls
    /\ lastSync \in Cursors
    /\ T \in ClockReadings
    /\ LET req == [body EXCEPT !.lastSync = lastSync]
           rec == [n |-> call.n + 1, kind |-> "sync", user |-> user, list |-> listId,
                   req |-> req, cid |-> Null, T |-> T,
                   access |-> CheckListAccess(listId, user),
                   before |-> srv, resp |-> ErrorResponse, prev |-> Remembered,
                   target |-> "none", revoked |-> call.revoked]
       IN IF ~CheckListAccess(listId, user)
          THEN \* error(access.error, 403): the body and the clock are not read
               /\ lastSync = Epoch
               /\ T = now
               /\ call' = rec
               /\ UNCHANGED <<srv, now>>
          ELSE LET S2 == ApplyBatch(srv, listId, req, T)
               IN /\ srv' = S2
                  /\ now' = T
                  /\ \E o \in CurrentOrders(S2, listId) :
                        call' = [rec EXCEPT
                                   !.resp = SyncResponse(S2, listId, lastSync, o, T)]
    /\ UNCHANGED <<cvars, reqs, served, listShares>>

\* DELETE /api/list/:id/categories/:cid, the whole of deleteCategory
DeleteCategory(user, listId, cid, T) ==
    /\ call.n < MaxCalls
    /\ T \in ClockReadings
    /\ LET ch  == CatRec("delete", cid, Undef, -1, 0)
           rec == [n |-> call.n + 1, kind |-> "deleteCategory", user |-> user,
                   list |-> listId, req |-> EmptyRequest, cid |-> cid, T |-> T,
                   access |-> CheckListAccess(listId, user),
                   before |-> srv, resp |-> ErrorResponse, prev |-> Remembered,
                   target |-> "none", revoked |-> call.revoked]
       IN IF ~CheckListAccess(listId, user)
          THEN /\ T = now
               /\ call' = rec
               /\ UNCHANGED <<srv, now>>
          ELSE /\ srv' = SrvUncategorize(SrvCatDelete(srv, listId, ch, T), listId, ch, T)
               /\ now' = T
               /\ call' = [rec EXCEPT
                             !.resp = [ErrorResponse EXCEPT !.error = FALSE]]
    /\ UNCHANGED <<cvars, reqs, served, listShares>>

NextCalls ==
    \/ \E rq \in Requests, ls \in 0..MaxTime, T \in Times :
          SyncChanges(rq[1][1], rq[1][2], rq[2], ls, T)
    \/ \E cl \in Callers, cid \in {"c1"}, T \in Times :
          DeleteCategory(cl[1], cl[2], cid, T)

SpecCalls == InitCalls /\ [][NextCalls]_vars

\* ------------------------------------------------------------ SpecEdits
\* The device of a list that has been in use: every mutation handler of the
\* page, on and off line, and the sync cycles they start.

\* the ids of a store in key order (getAll)
RECURSIVE SortIds(_)
SortIds(A) ==
    IF A = {} THEN <<>>
    ELSE LET m == CHOOSE x \in A : \A y \in A : IdRank[x] <= IdRank[y]
         IN <<m>> \o SortIds(A \ {m})

\* clearCompletedItems, the loop: a tombstone and a delete record per
\* completed item; a rejected queueChange ends the handler
RECURSIVE ClearLoop(_, _, _, _)
ClearLoop(ids, items, pend, serial) ==
    IF ids = <<>> THEN [items |-> items, pend |-> pend, serial |-> serial, ok |-> TRUE]
    ELSE LET id     == Head(ids)
             items2 == [items EXCEPT ![id] = Tombstone]
             rec    == ItemRec("delete", id, Undef, Undef, FALSE, serial + 1)
         IN IF QueueOk(pend, rec)
            THEN ClearLoop(Tail(ids), items2, QueueChange(pend, rec), serial + 1)
            ELSE [items |-> items2, pend |-> pend, serial |-> serial, ok |-> FALSE]

\* clearCompletedItems
ClearCompletedItems ==
    /\ CanTrigger
    /\ LET done == {i \in GetItems(locItems) : locItems[i].completed}
           r    == ClearLoop(SortIds(done), locItems, pending, nextSerial)
       IN /\ done # {}
          /\ r.serial <= MaxEdits
          /\ locItems' = r.items
          /\ pending' = r.pend
          /\ nextSerial' = r.serial
          /\ IF r.ok THEN ThenSyncAll(done)
             ELSE /\ cycles' = RecordEdits(cycles, done)
                  /\ syncs' = syncs
    /\ UNCHANGED <<online, locCats, categories, meta, srv, now, received, rejected, heard>>
    /\ UNCHANGED svars

\* deleteCategory (page), the loop over getItems(): the items of the category
\* are saved with categoryId null and an update record is queued for each
RECURSIVE UncategorizeLoop(_, _, _, _)
UncategorizeLoop(ids, items, pend, serial) ==
    IF ids = <<>> THEN [items |-> items, pend |-> pend, serial |-> serial, ok |-> TRUE]
    ELSE LET id     == Head(ids)
             item   == [items[id] EXCEPT !.categoryId = Null, !.updatedAt = ClientNow]
             items2 == [items EXCEPT ![id] = item]
             rec    == ItemRec("update", id, Null, item.text, item.completed, serial + 1)
         IN IF QueueOk(pend, rec)
            THEN UncategorizeLoop(Tail(ids), items2, QueueChange(pend, rec), serial + 1)
            ELSE [items |-> items2, pend |-> pend, serial |-> serial, ok |-> FALSE]

\* the category groups renderItems draws: one per category id that a visible
\* item carries ('null' for an item without category)
GroupOf(item) == IF item.categoryId \in {Null, Undef} THEN "null" ELSE item.categoryId

Groups(items) == {GroupOf(items[i]) : i \in GetItems(items)}

\* deleteCategory (page): the delete button of a drawn group.  The category
\* is looked up in the page variable; its record is saved with deleted: true.
ClientDeleteCategory(cid) ==
    /\ CanTrigger
    /\ cid \in Groups(locItems)
    /\ \E k \in 1..Len(categories) : categories[k].id = cid
    /\ LET cat  == categories[CHOOSE k \in 1..Len(categories) : categories[k].id = cid]
           mine == {i \in GetItems(locItems) : locItems[i].categoryId = cid}
           r    == UncategorizeLoop(SortIds(mine), locItems, pending, nextSerial)
           rec  == CatRec("category_delete", cid, Undef, -1, r.serial + 1)
           ok   == r.ok /\ QueueOk(r.pend, rec)
       IN /\ (IF ok THEN r.serial + 1 ELSE r.serial) <= MaxEdits
          /\ locCats' = (cid :> [name |-> cat.name, sortOrder |-> cat.sortOrder,
                                 updatedAt |-> ClientNow, deleted |-> TRUE]) @@ locCats
          /\ locItems' = r.items
          /\ IF ok
             THEN /\ pending' = QueueChange(r.pend, rec)
                  /\ nextSerial' = r.serial + 1
                  /\ categories' = SelectSeq(categories, LAMBDA c : c.id # cid)
                  /\ ThenSyncAll(mine)
             ELSE /\ pending' = r.pend
                  /\ nextSerial' = r.serial
                  /\ UNCHANGED categories
                  /\ cycles' = RecordEdits(cycles, mine)
                  /\ syncs' = syncs
    /\ UNCHANGED <<online, meta, srv, now, received, rejected, heard>>
    /\ UNCHANGED svars

\* categories.sort((a, b) => a.sortOrder - b.sortOrder): a stable sort
RECURSIVE InsertByOrder(_, _)
InsertByOrder(sorted, c) ==
    IF sorted = <<>> THEN <<c>>
    ELSE IF Head(sorted).sortOrder <= c.sortOrder
    THEN <<Head(sorted)>> \o InsertByOrder(Tail(sorted), c)
    ELSE <<c>> \o sorted

RECURSIVE StableSort(_)
StableSort(seq) ==
    IF seq = <<>> THEN <<>>
    ELSE InsertByOrder(StableSort(SubSeq(seq, 1, Len(seq) - 1)), seq[Len(seq)])

\* reorderCategories after a drag left the groups in the order `groups`:
\* every category found in the page variable whose sortOrder is not its
\* group's index is saved with that index; if there was one, a
\* category_order record is queued (the category_update records built in the
\* loop are not).
ReorderCategories(groups) ==
    /\ nextSerial < MaxEdits
    /\ CanTrigger
    /\ groups \in Perms(Groups(locItems))
    /\ LET Index(id) == (CHOOSE k \in 1..Len(groups) : groups[k] = id) - 1
           moved == {k \in 1..Len(categories) :
                        /\ categories[k].id \in Groups(locItems)
                        /\ categories[k].sortOrder # Index(categories[k].id)}
           mem   == [k \in 1..Len(categories) |->
                        IF k \in moved
                        THEN [categories[k] EXCEPT !.sortOrder = Index(categories[k].id)]
                        ELSE categories[k]]
           ids   == {categories[k].id : k \in moved}
           MemOf(id) == mem[CHOOSE k \in moved : mem[k].id = id]
       IN /\ moved # {}
          /\ locCats' = [c \in DOMAIN locCats \cup ids |->
                            IF c \in ids
                            THEN [name |-> MemOf(c).name, sortOrder |-> MemOf(c).sortOrder,
                                  updatedAt |-> MemOf(c).updatedAt, deleted |-> FALSE]
                            ELSE locCats[c]]
          /\ pending' = QueueChange(pending,
                            OrderRec(SelectSeq(groups, LAMBDA g : g # "null"), nextSerial + 1))
          /\ categories' = StableSort(mem)
    /\ nextSerial' = nextSerial + 1
    /\ ThenSyncAll({})
    /\ UNCHANGED <<online, locItems, meta, srv, now, received, rejected, heard>>
    /\ UNCHANGED svars

\* the list after a first session: the device created category c1 (Dairy)
\* and item x1 in it, and its last cycle committed the cursor 1
InitEdits ==
    /\ online = TRUE
    /\ locItems = ("x1" :> [categoryId |-> "c1", text |-> "milk", completed |-> FALSE,
                            updatedAt |-> 1, deleted |-> FALSE])
    /\ locCats = ("c0" :> [name |-> "Uncategorized", sortOrder |-> 0,
                           updatedAt |-> 1, deleted |-> FALSE])
                 @@ ("c1" :> [name |-> "Dairy", sortOrder |-> 1,
                              updatedAt |-> 1, deleted |-> FALSE])
    /\ categories = GetCategories(locCats)
    /\ pending = <<>>
    /\ meta = SetMeta(<<>>, "lastSync", 1)
    /\ cycles = [c \in Cycles |-> IdleCycle]
    /\ srv = [items |-> ("x1" :> [list |-> TheList, categoryId |-> "c1",
                                  text |-> "milk", completed |-> FALSE,
                                  updatedAt |-> 1, deleted |-> FALSE]),
              cats  |-> ("c0" :> [list |-> TheList, name |-> "Uncategorized",
                                  sortOrder |-> 0, updatedAt |-> 1,
                                  stampFmt |-> "sql", deleted |-> FALSE])
                        @@ ("c1" :> [list |-> TheList, name |-> "Dairy",
                                     sortOrder |-> 1, updatedAt |-> 1,
                                     stampFmt |-> "iso", deleted |-> FALSE])]
    /\ now = 1
    /\ syncs = 0
    /\ nextSerial = 0
    /\ received = {}
    /\ rejected = {}
    /\ heard = {}
    /\ listShares = {<<"L1", "u2">>}
    /\ reqs = [r \in Reqs |-> IdleReq]
    /\ served = 0
    /\ call = IdleCall

NextEdits ==
    \/ \E id \in ItemIds, choice \in CatIds \cup {""} : AddItem(id, choice)
    \/ \E id \in ItemIds : ToggleItem(id)
    \/ \E id \in ItemIds : DeleteItem(id)
    \/ ClearCompletedItems
    \/ \E cid \in CatIds : ClientDeleteCategory(cid)
    \/ \E groups \in UNION {Perms(G) : G \in SUBSET (CatIds \cup {"null"})} :
          ReorderCategories(groups)
    \/ GoOnline
    \/ GoOffline
    \/ \E c \in Cycles : ServerHandle(c, now)
    \/ \E c \in Cycles : SyncApply(c)
    \/ \E c \in Cycles : SyncCommit(c)

SpecEdits == InitEdits /\ [][NextEdits]_vars

\* ----------------------------------------------------------- SpecRemote
\* The device of Spec next to another device that changes the categories of
\* the list: what the cycles of the first bring into its Local Store.

\* another device adds a category: its addItem with '+ New category...' put
\* the category after the ones it knew, and its cycle sent the record
RemoteAddCategory(cid, T) ==
    /\ cid \in FreshCatIds
    /\ T \in ClockReadings
    /\ T > now
    /\ now' = T
    /\ LET known == {c \in DOMAIN srv.cats : srv.cats[c].list = TheList}
           maxOrder == CHOOSE m \in {srv.cats[c].sortOrder : c \in known} :
                          \A c \in known : srv.cats[c].sortOrder <= m
       IN srv' = ApplyBatch(srv, TheList,
                    [EmptyRequest EXCEPT
                        !.categoryChanges = <<CatRec("add", cid, "n1", maxOrder + 1, 0)>>], T)
    /\ UNCHANGED <<cvars, svars>>

\* another device deletes a category of the list through the endpoint
\* DELETE /api/list/:id/categories/:cid
RemoteDeleteCategory(cid, T) ==
    /\ cid \in DOMAIN srv.cats
    /\ ~srv.cats[cid].deleted
    /\ T \in ClockReadings
    /\ T > now
    /\ now' = T
    /\ LET ch == CatRec("delete", cid, Undef, -1, 0)
       IN srv' = SrvUncategorize(SrvCatDelete(srv, TheList, ch, T), TheList, ch, T)
    /\ UNCHANGED <<cvars, svars>>

NextRemote ==
    \/ \E id \in ItemIds, choice \in CatIds \cup {""} : AddItem(id, choice)
    \/ \E id \in ItemIds : DeleteItem(id)
    \/ \E cid \in CatIds : ClientDeleteCategory(cid)
    \/ TimerSync
    \/ \E cid \in CatIds, T \in Times : RemoteAddCategory(cid, T)
    \/ \E cid \in CatIds, T \in Times : RemoteDeleteCategory(cid, T)
    \/ \E c \in Cycles : ServerHandle(c, now)
    \/ \E c \in Cycles : SyncApply(c)
    \/ \E c \in Cycles : SyncCommit(c)

SpecRemote == Init /\ [][NextRemote]_vars

\* --------------------------------------------------------- SpecTeardown
\* The device of Spec with syncNow taken one await at a time after the
\* fetch: every Local Store write of the response, clearPendingChanges and
\* setMeta are steps of their own, and the page can be closed between any
\* two of them.

\* the Local Store writes of a response in program order: the item entries,
\* the category entries, the positions of categoryOrder
ResponseWrites(resp) ==
    LET is == SortIds(DOMAIN resp.itemChanges)
        cs == SortIds(DOMAIN resp.categoryChanges)
    IN [k \in 1..Len(is) |-> [op |-> "item", id |-> is[k]]]
       \o [k \in 1..Len(cs) |-> [op |-> "category", id |-> cs[k]]]
       \o [k \in 1..Len(resp.categoryOrder) |->
              [op |-> "order", id |-> resp.categoryOrder[k]]]

\* one await localDB.deleteItem / saveItem / deleteCategory / saveCategory of
\* the apply loops (a position of categoryOrder whose category is not in the
\* page variable writes nothing)
ApplyStep(c) ==
    /\ cycles[c].pc \in {"answered", "writing"}
    /\ ~cycles[c].resp.error
    /\ cycles[c].resp.missing = {}
    /\ LET ws == ResponseWrites(cycles[c].resp)
           k  == cycles[c].k
       IN IF k = Len(ws)
          THEN /\ cycles' = [cycles EXCEPT ![c].pc = "written"]
               /\ UNCHANGED <<locItems, locCats>>
          ELSE LET w == ws[k + 1]
               IN /\ cycles' = [cycles EXCEPT ![c].pc = "writing", ![c].k = k + 1]
                  /\ locItems' = IF w.op = "item"
                                 THEN ApplyItemDelta(locItems,
                                          (w.id :> cycles[c].resp.itemChanges[w.id]))
                                 ELSE locItems
                  /\ locCats' =
                        CASE w.op = "category" ->
                                ApplyCatDelta(locCats,
                                    (w.id :> cycles[c].resp.categoryChanges[w.id]))
                          [] w.op = "order" ->
                                ApplyLocalOrder(locCats,
                                    SelectSeq(categories, LAMBDA m : m.id = w.id),
                                    cycles[c].resp.categoryOrder)
                          [] OTHER -> locCats
    /\ UNCHANGED <<online, categories, pending, meta, srv, now, syncs, nextSerial,
                   received, rejected, heard>>
    /\ UNCHANGED svars

\* categories = await localDB.getCategories(); await clearPendingChanges()
CommitQueue(c) ==
    /\ cycles[c].pc = "written"
    /\ categories' = GetCategories(locCats)
    /\ pending' = ClearPendingChanges(pending)
    /\ cycles' = [cycles EXCEPT ![c].pc = "cleared"]
    /\ UNCHANGED <<online, locItems, locCats, meta, srv, now, syncs, nextSerial,
                   received, rejected, heard>>
    /\ UNCHANGED svars

\* await localDB.setMeta('lastSync', data.timestamp)
CommitCursor(c) ==
    /\ cycles[c].pc = "cleared"
    /\ meta' = SetMeta(meta, "lastSync", cycles[c].resp.timestamp)
    /\ cycles' = [cycles EXCEPT ![c] = IdleCycle]
    /\ UNCHANGED <<online, locItems, locCats, categories, pending, srv, now, syncs,
                   nextSerial, received, rejected, heard>>
    /\ UNCHANGED svars

\* the page is closed while syncNow is between two awaits: every invocation
\* ends there; the stores stay as they are and the page variable is read
\* again from the Local Store when the list is opened (loadData)
PageTeardown ==
    /\ \E c \in Cycles : cycles[c].pc # "idle"
    /\ cycles' = [c \in Cycles |-> IdleCycle]
    /\ categories' = GetCategories(locCats)
    /\ UNCHANGED <<online, locItems, locCats, pending, meta, srv, now, syncs,
                   nextSerial, received, rejected, heard>>
    /\ UNCHANGED svars

NextTeardown ==
    \/ \E id \in ItemIds, choice \in CatIds \cup {""} : AddItem(id, choice)
    \/ TimerSync
    \/ \E c \in Cycles, T \in Times : ServerHandle(c, T)
    \/ \E id \in ItemIds, T \in Times : RemoteSync(id, "update", T)
    \/ \E c \in Cycles : ApplyStep(c)
    \/ \E c \in Cycles : CommitQueue(c)
    \/ \E c \in Cycles : CommitCursor(c)
    \/ PageTeardown

SpecTeardown == Init /\ [][NextTeardown]_vars

\* ------------------------------------------------------------ SpecLists
\* The device of a user with two lists: the Local Store, the queue and the
\* meta store are one for all lists; opening a list replaces the items and
\* categories and makes it the current list.

\* the list that is current when generateId hands out an item id
HomeList == ("x1" :> TheList) @@ ("x2" :> OtherList)

\* openList: GET /api/list/:id (getList: the rows with deleted = FALSE),
\* clearItems, clearCategories, save the rows, then switchToList (setMeta
\* lastUsedListId, loadData, startSync)
OpenList(listId) ==
    /\ online
    /\ CanSync
    /\ listId \in {TheList, OtherList}
    /\ LET is == {i \in DOMAIN srv.items : srv.items[i].list = listId /\ ~srv.items[i].deleted}
           cs == {c \in DOMAIN srv.cats : srv.cats[c].list = listId /\ ~srv.cats[c].deleted}
       IN /\ locItems' = [i \in is |->
                [categoryId |-> srv.items[i].categoryId, text |-> srv.items[i].text,
                 completed |-> srv.items[i].completed,
                 updatedAt |-> srv.items[i].updatedAt, deleted |-> FALSE]]
          /\ locCats' = [c \in cs |->
                [name |-> srv.cats[c].name, sortOrder |-> srv.cats[c].sortOrder,
                 updatedAt |-> ClientNow, deleted |-> FALSE]]
    /\ meta' = SetMeta(meta, "lastUsedListId", listId)
    /\ categories' = GetCategories(locCats')
    /\ cycles' = SyncNow(cycles, pending, meta')
    /\ syncs' = syncs + 1
    /\ UNCHANGED <<online, pending, srv, now, nextSerial, received, rejected, heard>>
    /\ UNCHANGED svars

\* the Worker handles the request at the endpoint of the list it was sent to
ListServerHandle(c, T) ==
    /\ cycles[c].pc = "sending"
    /\ T \in ClockReadings
    /\ now' = T
    /\ LET S2 == ApplyBatch(srv, cycles[c].list, cycles[c].req, T)
       IN /\ srv' = S2
          /\ \E o \in CurrentOrders(S2, cycles[c].list) :
                cycles' = [cycles EXCEPT
                    ![c].pc = "answered",
                    ![c].resp = SyncResponse(S2, cycles[c].list,
                                             cycles[c].req.lastSync, o, T)]
    /\ received' = received \cup
            {cycles[c].drained[k].serial : k \in 1..Len(cycles[c].drained)}
    /\ heard' = heard \cup {<<cycles[c].list, T>>}
    /\ UNCHANGED <<online, locItems, locCats, categories, pending, meta, syncs, nextSerial,
                   rejected>>
    /\ UNCHANGED svars

\* createList was run for both lists: each has its default category on the
\* server; the device has TheList open
InitLists ==
    /\ online = TRUE
    /\ locItems = <<>>
    /\ locCats = (DefaultCat :> [name |-> "Uncategorized", sortOrder |-> 0,
                                 updatedAt |-> ClientNow, deleted |-> FALSE])
    /\ categories = GetCategories(locCats)
    /\ pending = <<>>
    /\ meta = <<>>
    /\ cycles = [c \in Cycles |-> IdleCycle]
    /\ srv = [items |-> <<>>,
              cats  |-> (DefaultCat :> [list |-> TheList, name |-> "Uncategorized",
                                        sortOrder |-> 0, updatedAt |-> 1,
                                        stampFmt |-> "sql", deleted |-> FALSE])
                        @@ ("c1" :> [list |-> OtherList, name |-> "Uncategorized",
                                     sortOrder |-> 0, updatedAt |-> 1,
                                     stampFmt |-> "sql", deleted |-> FALSE])]
    /\ now = 1
    /\ syncs = 0
    /\ nextSerial = 0
    /\ received = {}
    /\ rejected = {}
    /\ heard = {}
    /\ listShares = {<<"L1", "u2">>}
    /\ reqs = [r \in Reqs |-> IdleReq]
    /\ served = 0
    /\ call = IdleCall

\* addItem in the current list
AddItemInList(id, choice) ==
    /\ HomeList[id] = CurrentList(meta)
    /\ AddItem(id, choice)

NextLists ==
    \/ \E id \in ItemIds, choice \in CatIds \cup {""} : AddItemInList(id, choice)
    \/ \E l \in {TheList, OtherList} : OpenList(l)
    \/ TimerSync
    \/ GoOnline
    \/ GoOffline
    \/ \E c \in Cycles, T \in Times : ListServerHandle(c, T)
    \/ \E c \in Cycles : NetFail(c)
    \/ \E c \in Cycles : SyncApply(c)
    \/ \E c \in Cycles : SyncCommit(c)

SpecLists == InitLists /\ [][NextLists]_vars

\* ----------------------------------------------------------- SpecShares
\* The Worker with the owner, a collaborator and a stranger posting share,
\* unshare and sync requests, each handled whole.
MaxShares == 3      \* share and unshare requests the Worker answers

\* ids of the users table, and a request body's email: of a user, of nobody
\* who signed in, or missing
NoUser == "nobody"
NoEmail == "noemail"
Emails == Users \cup {NoUser, NoEmail}

\* checkListAccess: role 'owner', or the role of the list_shares row
RoleOf(listId, userId) ==
    IF ListOwner[listId] = userId THEN "owner" ELSE "collaborator"

\* shareList: access, role, email, users row, not the caller, not yet shared
ShareGranted(user, listId, email) ==
    /\ CheckListAccess(listId, user)
    /\ RoleOf(listId, user) = "owner"
    /\ email # NoEmail
    /\ email \in Users
    /\ email # user
    /\ <<listId, email>> \notin listShares

\* POST /api/list/:id/share, the whole of shareList
ShareList(user, listId, email) ==
    /\ served < MaxShares
    /\ served' = served + 1
    /\ LET ok == ShareGranted(user, listId, email)
       IN /\ listShares' = IF ok THEN listShares \cup {<<listId, email>>}
                                 ELSE listShares
          /\ call' = [call EXCEPT
                        !.kind = "share", !.user = user, !.list = listId,
                        !.target = email,
                        !.access = CheckListAccess(listId, user),
                        !.resp = [ErrorResponse EXCEPT !.error = ~ok],
                        !.revoked = IF ok THEN @ \ {<<listId, email>>} ELSE @,
                        !.prev = Remembered]
    /\ UNCHANGED <<srv, now, cvars, reqs>>

\* removeShare without the check of the role
RemoveGrantedAnyRole(user, listId) == CheckListAccess(listId, user)

\* removeShare: access and role
RemoveGranted(user, listId) ==
    CheckListAccess(listId, user) /\ RoleOf(listId, user) = "owner"

\* DELETE /api/list/:id/share/:userId, the whole of removeShare
RemoveShare(user, listId, shareUserId) ==
    /\ served < MaxShares
    /\ served' = served + 1
    /\ LET ok == RemoveGranted(user, listId)
       IN /\ listShares' = IF ok THEN listShares \ {<<listId, shareUserId>>}
                                 ELSE listShares
          /\ call' = [call EXCEPT
                        !.kind = "unshare", !.user = user, !.list = listId,
                        !.target = shareUserId,
                        !.access = CheckListAccess(listId, user),
                        !.resp = [ErrorResponse EXCEPT !.error = ~ok],
                        !.revoked = IF ok /\ <<listId, shareUserId>> \in listShares
                                    THEN @ \cup {<<listId, shareUserId>>}
                                    ELSE @,
                        !.prev = Remembered]
    /\ UNCHANGED <<srv, now, cvars, reqs>>

NextShares ==
    \/ \E u \in Users, l \in {TheList, NoList}, e \in Emails :
          ShareList(u, l, e)
    \/ \E u \in Users, t \in Users : RemoveShare(u, TheList, t)
    \/ \E u \in Users, body \in {Poll, AddInC1}, T \in Times :
          SyncChanges(u, TheList, body, Epoch, T)

SpecShares == InitCalls /\ [][NextShares]_vars

\* ============================================================== claims
DrainedSerials(c) == {cycles[c].drained[k].serial : k \in 1..Len(cycles[c].drained)}

Commits(c) == cycles[c].pc = "applying" /\ cycles'[c].pc = "idle"

Fails(c) == cycles[c].pc \in {"sending", "answered"} /\ cycles'[c].pc = "idle"

PendingRecords(pend) == {pend[k] : k \in DOMAIN pend}

\* C1: a change record enqueued after a cycle's drain and before its commit
\* is not removed by that commit: the commit removes only the records the
\* cycle drained, the interleaved record is still in the queue afterwards
\* (so that the next cycle transmits it).
C1_CommitKeepsInterleaved ==
    [][\A c \in Cycles : Commits(c) =>
          \A k \in DOMAIN pending :
              pending[k].serial \notin DrainedSerials(c) =>
                  k \in DOMAIN pending' /\ pending'[k] = pending[k]]_vars

\* C2: when a cycle ends in a network error or an error response, the queue
\* still holds every record it held when the cycle drained it and the
\* stored cursor is the one the cycle read at its start.
C2_FailedCycleKeepsQueueAndCursor ==
    [][\A c \in Cycles : Fails(c) =>
          /\ SeqToSet(cycles[c].drained) \subseteq PendingRecords(pending')
          /\ meta' = cycles[c].cursor0]_vars

\* C3: at most one sync cycle is between its drain and its commit or failure
C3_AtMostOneCycle ==
    Cardinality({c \in Cycles : cycles[c].pc # "idle"}) <= 1

SameItem(a, b) ==
    /\ a.categoryId = b.categoryId
    /\ a.text = b.text
    /\ a.completed = b.completed
    /\ a.deleted = b.deleted

\* C4: an item the user added, toggled or deleted while the cycle's request
\* was in flight is the same in the Local Store after the cycle has applied
\* the response.
C4_EditSurvivesApply ==
    [][\A c \in Cycles :
          (cycles[c].pc = "answered" /\ cycles'[c].pc = "applying") =>
              \A id \in cycles[c].edits :
                  /\ id \in DOMAIN locItems'
                  /\ SameItem(locItems'[id], locItems[id])]_vars

\* C5: every change record that was enqueued is eventually sent to the
\* server (under FairSpec: the timer keeps firing, the server eventually
\* answers).
C5_EnqueuedEventuallyReceived ==
    \A s \in Serials : (nextSerial >= s) ~> (s \in received)

\* ------------------------------------------------ claims on the Worker
\* the change records of a request body for item id, those with a payload
ChangesFor(req, id) == SelectSeq(req.itemChanges, LAMBDA ch : ch.id = id)

PayloadFor(req, id) ==
    SelectSeq(req.itemChanges, LAMBDA ch : ch.id = id /\ ch.type \in {"add", "update"})

CarriesOne(req, id) == Len(ChangesFor(req, id)) = 1 /\ Len(PayloadFor(req, id)) = 1

FinishedSync(r) == reqs[r].kind = "sync" /\ reqs[r].pc = "done"

\* C6: when the only two requests the Worker has handled are sync requests
\* that each carry one add/update record for the same item, stamped T1 < T2,
\* and both have finished, the item's categoryId, text and completed are
\* those of the T2 request's record, whatever order the row writes took.
C6_LaterStampWins ==
    \A r1, r2 \in Reqs, id \in ItemIds :
        (/\ served = 2
         /\ FinishedSync(r1) /\ FinishedSync(r2)
         /\ reqs[r1].T < reqs[r2].T
         /\ CarriesOne(reqs[r1].req, id) /\ CarriesOne(reqs[r2].req, id)
         /\ id \in DOMAIN srv.items)
        => LET ch == PayloadFor(reqs[r2].req, id)[1]
           IN /\ srv.items[id].categoryId = ch.categoryId
              /\ srv.items[id].text = ch.text
              /\ srv.items[id].completed = ch.completed

\* C7: every row a sync request writes gets the one time T the request read
\* on the server, the response's timestamp is that T, and no row carries the
\* timestamp a device put in a change record.
C7_OneServerStampPerRequest ==
    /\ \A r \in Reqs : reqs[r].kind = "sync" =>
          /\ reqs[r].stamps \subseteq {reqs[r].T}
          /\ reqs[r].pc = "done" => reqs[r].resp.timestamp = reqs[r].T
    /\ \A i \in DOMAIN srv.items : srv.items[i].updatedAt # ClientNow
    /\ \A c \in DOMAIN srv.cats : srv.cats[c].updatedAt # ClientNow

\* a sync request carrying category changes, a category order and more than
\* one row has answered: its writes all carry its T
C7_Witness ==
    \E r \in Reqs :
        /\ FinishedSync(r)
        /\ reqs[r].req.categoryOrder = CatBatch.categoryOrder
        /\ reqs[r].stamps = {reqs[r].T}
        /\ reqs[r].resp.timestamp = reqs[r].T
        /\ Cardinality({c \in DOMAIN srv.cats : srv.cats[c].updatedAt = reqs[r].T}) >= 2

\* C8: no write to an item or category row stores an updatedAt smaller than
\* the one the row had.
C8_UpdatedAtNeverDecreases ==
    [][/\ \A i \in DOMAIN srv.items : srv'.items[i].updatedAt >= srv.items[i].updatedAt
       /\ \A c \in DOMAIN srv.cats : srv'.cats[c].updatedAt >= srv.cats[c].updatedAt]_vars

Selects(r) == reqs[r].pc = "select" /\ reqs[r].kind = "sync" /\ reqs'[r].pc = "done"

\* C9 (as the code has it): a row with deleted = true stays deleted under
\* every later statement of every request, and a delta that contains the id
\* of a deleted row tags it delete.
C9_TombstonesStay ==
    [][/\ \A i \in DOMAIN srv.items :
            srv.items[i].deleted => i \in DOMAIN srv'.items /\ srv'.items[i].deleted
       /\ \A c \in DOMAIN srv.cats :
            srv.cats[c].deleted => c \in DOMAIN srv'.cats /\ srv'.cats[c].deleted
       /\ \A r \in Reqs : Selects(r) =>
            /\ \A i \in DOMAIN reqs'[r].resp.itemChanges :
                  srv.items[i].deleted => reqs'[r].resp.itemChanges[i].type = "delete"
            /\ \A c \in DOMAIN reqs'[r].resp.categoryChanges :
                  srv.cats[c].deleted => reqs'[r].resp.categoryChanges[c].type = "delete"]_vars

\* a request deleted category c1 and then added it again and put it first in
\* the order; the row is still deleted and the delta says so
C9_Witness ==
    \E r \in Reqs :
        /\ FinishedSync(r)
        /\ reqs[r].req.categoryChanges = CatBatch.categoryChanges
        /\ srv.cats["c1"].deleted
        /\ srv.cats["c1"].name = "n2"
        /\ "c1" \in DOMAIN reqs[r].resp.categoryChanges
        /\ reqs[r].resp.categoryChanges["c1"].type = "delete"

\* C9 (as stated): every delta computed after a row was deleted reports the
\* row's id with type delete.
C9_EveryLaterDeltaReportsDelete ==
    [][\A r \in Reqs : Selects(r) =>
          /\ \A i \in DOMAIN srv.items : srv.items[i].deleted =>
                /\ i \in DOMAIN reqs'[r].resp.itemChanges
                /\ reqs'[r].resp.itemChanges[i].type = "delete"
          /\ \A c \in DOMAIN srv.cats : srv.cats[c].deleted =>
                /\ c \in DOMAIN reqs'[r].resp.categoryChanges
                /\ reqs'[r].resp.categoryChanges[c].type = "delete"]_vars

\* the authoritative state without the stamps
StripStamps(S) ==
    [items |-> [i \in DOMAIN S.items |-> [S.items[i] EXCEPT !.updatedAt = 0]],
     cats  |-> [c \in DOMAIN S.cats |-> [S.cats[c] EXCEPT !.updatedAt = 0]]]

AnsweredSync == call.kind = "sync" /\ call.access

\* the rows of a list stamped after a cursor, as the instants compare
ItemsAfter(S, listId, lastSync) ==
    {i \in DOMAIN S.items : S.items[i].list = listId /\ S.items[i].updatedAt > lastSync}

CatsAfter(S, listId, lastSync) ==
    {c \in DOMAIN S.cats : S.cats[c].list = listId /\ S.cats[c].updatedAt > lastSync}

\* C11: the delta of a sync response holds exactly the item and category
\* rows of the addressed list whose updatedAt is later than the request's
\* lastSync, tagged delete when the row's deleted flag is set and update
\* otherwise; with the cursor 1970-01-01 it holds every row of the list.
C11_DeltaIsRowsAfterCursor ==
    AnsweredSync =>
        /\ DOMAIN call.resp.itemChanges = ItemsAfter(srv, call.list, call.req.lastSync)
        /\ DOMAIN call.resp.categoryChanges = CatsAfter(srv, call.list, call.req.lastSync)
        /\ \A i \in DOMAIN call.resp.itemChanges :
              call.resp.itemChanges[i].type =
                  (IF srv.items[i].deleted THEN "delete" ELSE "update")
        /\ \A c \in DOMAIN call.resp.categoryChanges :
              call.resp.categoryChanges[c].type =
                  (IF srv.cats[c].deleted THEN "delete" ELSE "update")
        /\ call.req.lastSync = Epoch =>
              /\ DOMAIN call.resp.itemChanges =
                     {i \in DOMAIN srv.items : srv.items[i].list = call.list}
              /\ DOMAIN call.resp.categoryChanges =
                     {c \in DOMAIN srv.cats : srv.cats[c].list = call.list}

\* C12: after a request of a caller with access deleted a category (a
\* category delete record of a sync batch, or the delete-category
\* endpoint), no item row of the list references the category, the items
\* that did have categoryId null and the request's stamp (so the next delta
\* of a device that has not seen the request carries them); and in every
\* state each item's categoryId is null or the id of an existing
\* non-deleted category.
C12_DeletedCategoryLeavesNoReference ==
    /\ call.access =>
          \A c \in DeletedCats(call), i \in DOMAIN srv.items :
              srv.items[i].list = call.list =>
                  /\ srv.items[i].categoryId # c
                  /\ (i \in DOMAIN call.before.items
                        /\ call.before.items[i].categoryId = c) =>
                          /\ srv.items[i].categoryId = Null
                          /\ srv.items[i].updatedAt = call.T
    /\ \A i \in DOMAIN srv.items :
          \/ srv.items[i].categoryId = Null
          \/ /\ srv.items[i].categoryId \in DOMAIN srv.cats
             /\ ~srv.cats[srv.items[i].categoryId].deleted

\* device A's sync after device B deleted category c1: A added item x2 with
\* categoryId c1 while offline and has not seen B's request
ASyncsAfterBDeleted ==
    /\ call.prev.access /\ call.prev.list = TheList /\ "c1" \in call.prev.deleted
    /\ AnsweredSync /\ call.list = TheList /\ call.req.itemChanges = AddInC1.itemChanges
    /\ call.req.lastSync < call.prev.T

\* C13: device A, offline, adds item x2 with categoryId c1; device B deletes
\* category c1; when A then syncs, its delta includes the delete of c1, and
\* after A's following sync item x2 has categoryId null on the server and in
\* A's Local Store.
C13_OfflineAddIntoDeletedCategory ==
    ASyncsAfterBDeleted =>
        /\ "c1" \in DOMAIN call.resp.categoryChanges
        /\ call.resp.categoryChanges["c1"].type = "delete"
        /\ \A T \in ClockReadings :
              LET added == "x2" :> LocalItem("c1", "eggs", FALSE)
                  loc1  == ApplyItemDelta(added, call.resp.itemChanges)
                  S3    == ApplyBatch(srv, TheList, Poll, T)
                  loc2  == ApplyItemDelta(loc1, DeltaItems(S3, TheList, call.T))
              IN /\ S3.items["x2"].categoryId = Null
                 /\ loc2["x2"].categoryId = Null

\* the entries of a list of ids that are in a set, in the list's order
Restrict(seq, A) == SelectSeq(seq, LAMBDA x : x \in A)

\* the non-deleted categories of a list
LiveCats(S, listId) ==
    {c \in DOMAIN S.cats : S.cats[c].list = listId /\ ~S.cats[c].deleted}

\* the last request was a sync request that follows a sync request to the
\* same list, both of callers with access
FollowsSync ==
    /\ AnsweredSync
    /\ call.prev.kind = "sync" /\ call.prev.access /\ call.prev.list = call.list

\* the categories of a list, deleted or not
ListCats(S, listId) == {c \in DOMAIN S.cats : S.cats[c].list = listId}

CallerIsMember ==
    /\ call.list \in DOMAIN ListOwner
    /\ \/ ListOwner[call.list] = call.user
       \/ <<call.list, call.user>> \in ListShares

\* C15: a sync request of a caller who is neither owner nor collaborator of
\* the addressed list, or to a list that does not exist, leaves every item
\* and category row as it was and is answered with an error; the request of
\* an owner or collaborator is answered with a delta and a timestamp.
C15_NoAccessNoWrite ==
    call.kind = "sync" =>
        IF CallerIsMember
        THEN ~call.resp.error /\ call.resp.timestamp = call.T
        ELSE srv = call.before /\ call.resp.error

\* a stranger's batch that deletes category c1 was rejected, then a request
\* for a list without a row
C15_Witness ==
    /\ call.kind = "sync" /\ call.list = NoList /\ call.resp.error
    /\ call.req.itemChanges = AddInC1.itemChanges
    /\ call.prev.kind = "sync" /\ call.prev.list = TheList /\ ~call.prev.access
    /\ call.prev.deleted = {"c1"}
    /\ ~srv.cats["c1"].deleted /\ "x2" \notin DOMAIN srv.items

\* ------------------------------------- claims on the device's cursor
\* C16: the lastSync cursor changes only at the end of a cycle whose
\* response was received without an error and applied, and becomes that
\* response's timestamp; no other step of the device (local mutations,
\* failed cycles, opening the list again, going offline or online) changes it.
C16_CursorOnlyAtCommit ==
    [][meta' # meta =>
          \E c \in Cycles :
              /\ cycles[c].pc = "applying"
              /\ ~cycles[c].resp.error
              /\ cycles'[c].pc = "idle"
              /\ meta' = ("lastSync" :> cycles[c].resp.timestamp) @@ meta]_vars

\* a cycle committed the cursor, then the device went offline and queued a
\* mutation that left the cursor alone
C16_Witness ==
    /\ "lastSync" \in DOMAIN meta
    /\ meta["lastSync"] >= 1
    /\ ~online
    /\ pending # <<>>
    /\ \A c \in Cycles : cycles[c].pc = "idle"

\* a cycle that was answered with a body of unexpected shape ends in this step
EndsMalformed(c) ==
    /\ cycles[c].pc \in {"answered", "applying"}
    /\ cycles[c].resp.missing # {}
    /\ cycles'[c].pc = "idle"

\* C17: a cycle answered with a body in which itemChanges, categoryChanges
\* or timestamp is missing or of the wrong type ends like a failed request:
\* the step that ends it leaves the pending queue and the lastSync cursor as
\* they were.
C17_MalformedReplyKeepsQueueAndCursor ==
    [][\A c \in Cycles : EndsMalformed(c) => pending' = pending /\ meta' = meta]_vars

\* no syncNow invocation is past its guard
AllIdle == \A c \in Cycles : cycles[c].pc = "idle"

\* C18: a trigger that fires while the device is offline starts no cycle: no
\* invocation leaves the guard and no request is sent; with no earlier
\* cycle in flight the queue loses no record, the cursor keeps its value and
\* the Local Store is written by the device's own mutations only.
C18_OfflineTriggerIsNoOp ==
    [][~online' =>
          /\ \A c \in Cycles : cycles[c].pc = "idle" => cycles'[c].pc = "idle"
          /\ syncs' = syncs
          /\ AllIdle =>
                /\ meta' = meta
                /\ \A k \in DOMAIN pending :
                      k \in DOMAIN pending' /\ pending'[k] = pending[k]
                /\ locCats' = locCats \/ nextSerial' > nextSerial
                /\ \A i \in DOMAIN locItems :
                      /\ i \in DOMAIN locItems'
                      /\ locItems'[i] # locItems[i] => locItems'[i].updatedAt = ClientNow]_vars

\* the device went offline before its first cycle and a mutation's trigger
\* fired: the record waits in the queue
C18_Witness ==
    /\ ~online
    /\ syncs = 0
    /\ AllIdle
    /\ nextSerial = 1
    /\ pending # <<>>
    /\ meta = <<>>

\* ------------------------------------- claims on a batch's records
\* the last request was a sync request to TheList with the item records of
\* Mixed: add x2, update x1 into a category without a row, delete x1
AnsweredMixed ==
    /\ AnsweredSync
    /\ call.list = TheList
    /\ call.req.itemChanges = Mixed.itemChanges

\* C19: a record whose statement fails is skipped and the records before and
\* after it are applied; the request is still answered with its delta and
\* timestamp.
C19_FailingRecordIsSkipped ==
    AnsweredMixed =>
        /\ srv = ApplyBatch(call.before, TheList,
                    [call.req EXCEPT !.itemChanges =
                        <<Mixed.itemChanges[1], Mixed.itemChanges[3]>>], call.T)
        /\ "x2" \in DOMAIN srv.items
        /\ srv.items["x2"].text = "eggs" /\ srv.items["x2"].updatedAt = call.T
        /\ srv.items["x1"].text = call.before.items["x1"].text
        /\ srv.items["x1"].categoryId = call.before.items["x1"].categoryId
        /\ srv.items["x1"].deleted /\ srv.items["x1"].updatedAt = call.T
        /\ ~call.resp.error
        /\ call.resp.timestamp = call.T
        /\ call.req.lastSync < call.T =>
              /\ {i \in {"x1", "x2"} : srv.items[i].list = TheList}
                     \subseteq DOMAIN call.resp.itemChanges
              /\ call.resp.itemChanges["x1"].type = "delete"

\* the batch was applied to a list in which x1 was not deleted and x2 had
\* no row
C19_Witness ==
    /\ AnsweredMixed
    /\ ~call.before.items["x1"].deleted
    /\ "x2" \notin DOMAIN call.before.items
    /\ srv.items["x1"].deleted
    /\ srv.items["x1"].text = "milk"
    /\ srv.items["x2"].text = "eggs"
    /\ DOMAIN call.resp.itemChanges = {"x1", "x2"}

\* the update records of a list of change records whose id has no row in rows
UpdatesOfMissing(chs, rows) ==
    {k \in 1..Len(chs) : chs[k].type = "update" /\ chs[k].id \notin DOMAIN rows}

\* C20: an update record for an item or category id without a row is
\* absorbed as an upsert: the request succeeds and afterwards a row with
\* that id exists in the addressed list with the record's payload; a delete
\* record for an id without a row is not an error.
C20_UpdateOfMissingIdUpserts ==
    AnsweredSync =>
        /\ ~call.resp.error
        /\ \A k \in UpdatesOfMissing(call.req.itemChanges, call.before.items) :
              LET ch == call.req.itemChanges[k]
              IN /\ ch.id \in DOMAIN srv.items
                 /\ srv.items[ch.id].list = call.list
                 /\ srv.items[ch.id].text = ch.text
                 /\ srv.items[ch.id].completed = ch.completed
        /\ \A k \in UpdatesOfMissing(call.req.categoryChanges, call.before.cats) :
              LET ch == call.req.categoryChanges[k]
              IN /\ ch.id \in DOMAIN srv.cats
                 /\ srv.cats[ch.id].list = call.list
                 /\ srv.cats[ch.id].name = ch.name

\* a step of a mutation handler of the page: the Local Store or the queue is
\* written and no cycle moves on from its request
MutationStep ==
    /\ locItems' # locItems \/ locCats' # locCats \/ pending' # pending
    /\ \A c \in Cycles : cycles'[c].pc = cycles[c].pc \/ cycles[c].pc = "idle"

\* C21: every local mutation (add, toggle, delete an item, clear completed,
\* delete a category, reorder categories) made while the device is online
\* starts a sync cycle in the same handler, after its writes to the Local
\* Store and the queue; and every change from offline to online starts a
\* cycle.
C21_MutationTriggersSync ==
    [][/\ (MutationStep /\ online) => syncs' = syncs + 1
       /\ (~online /\ online') => syncs' = syncs + 1]_vars

\* C22: once the device has received the access-denied answer to a sync
\* request, no later trigger (timer, mutation, online event) sends that same
\* batch again, and the queued records stay in the queue when the answer is
\* received.
C22_DeniedBatchNotResent ==
    [][\A c \in Cycles :
          /\ (cycles[c].pc = "idle" /\ cycles'[c].pc = "sending")
                => cycles'[c].req \notin rejected
          /\ (cycles[c].pc = "answered" /\ cycles[c].resp.error /\ cycles'[c].pc = "idle")
                => pending' = pending]_vars

\* the statement a request runs next is the delete of a row of the list
DeletesRow(r, op, rows) ==
    /\ reqs[r].pc = "writing"
    /\ reqs'[r].k = reqs[r].k + 1
    /\ reqs[r].writes[reqs[r].k].op = op
    /\ reqs[r].writes[reqs[r].k].ch.type = "delete"
    /\ reqs[r].writes[reqs[r].k].ch.id \in DOMAIN rows
    /\ rows[reqs[r].writes[reqs[r].k].ch.id].list = TheList

\* C23: no statement of a sync request or of an item or category endpoint
\* removes a row: every item id and category id stored for a list stays
\* stored for that list, and a delete leaves the row in place with its
\* deleted flag set.
C23_NoHardDeletes ==
    [][/\ \A i \in DOMAIN srv.items :
             i \in DOMAIN srv'.items /\ srv'.items[i].list = srv.items[i].list
       /\ \A c \in DOMAIN srv.cats :
             c \in DOMAIN srv'.cats /\ srv'.cats[c].list = srv.cats[c].list
       /\ \A r \in Reqs :
             /\ DeletesRow(r, "item", srv.items)
                   => srv'.items[reqs[r].writes[reqs[r].k].ch.id].deleted
             /\ DeletesRow(r, "category", srv.cats)
                   => srv'.cats[reqs[r].writes[reqs[r].k].ch.id].deleted]_vars

\* a sync request and an endpoint have finished, an item and a category are
\* deleted and their rows are still stored
C23_Witness ==
    /\ \E r \in Reqs : reqs[r].pc = "done" /\ reqs[r].kind = "sync"
    /\ \E r \in Reqs : reqs[r].pc = "done" /\ reqs[r].kind \in {"deleteItem", "deleteCategory"}
    /\ \E i \in DOMAIN srv.items : srv.items[i].deleted
    /\ \E c \in DOMAIN srv.cats : srv.cats[c].deleted

\* the records of a drain in the order they were enqueued
RECURSIVE BySerial(_)
BySerial(recs) ==
    IF recs = {} THEN <<>>
    ELSE LET m == CHOOSE x \in recs : \A y \in recs : x.serial <= y.serial
         IN <<m>> \o BySerial(recs \ {m})

InsertionOrder(drained) == BySerial(SeqToSet(drained))

\* the request body the claim describes, built from the records q
BatchOf(q, m) ==
    LET items  == SelectSeq(q, LAMBDA p : ~IsCategoryType(p.type))
        cats   == SelectSeq(q, LAMBDA p : p.type \in {"category_add", "category_update",
                                                      "category_delete"})
        orders == SelectSeq(q, LAMBDA p : p.type = "category_order")
    IN [itemChanges     |-> items,
        categoryChanges |-> [k \in 1..Len(cats) |->
                                [cats[k] EXCEPT !.type = StripCategory(cats[k].type)]],
        categoryOrder   |-> IF orders = <<>> THEN <<>> ELSE orders[Len(orders)].order,
        lastSync        |-> IF "lastSync" \in DOMAIN m THEN m["lastSync"] ELSE Epoch]

\* C24: the request of a cycle holds every drained record once: itemChanges
\* the records whose type does not start with category_, in the order they
\* were enqueued; categoryChanges the category_add, category_update and
\* category_delete records in the order they were enqueued, the prefix
\* removed; categoryOrder the order list of the last category_order record
\* or null; lastSync the stored cursor or 1970-01-01.
C24_BatchInQueueOrder ==
    \A c \in Cycles :
        cycles[c].pc = "sending" =>
            cycles[c].req = BatchOf(InsertionOrder(cycles[c].drained), cycles[c].cursor0)

\* syncNow has written the response of cycle c to the Local Store
Applies(c) == cycles[c].pc = "answered" /\ cycles'[c].pc = "applying"

\* C25: when a cycle has applied its response, for every item entry tagged
\* update the Local Store item of that id has the entry's categoryId (null
\* included), text and completed, and updatedAt equal to the entry's
\* timestamp; for every category entry tagged update the local category has
\* the entry's name; for every entry tagged delete the Local Store holds no
\* record of that id.
C25_DeltaAppliedAsSent ==
    [][\A c \in Cycles : Applies(c) =>
          LET di == cycles[c].resp.itemChanges
              dc == cycles[c].resp.categoryChanges
          IN /\ \A i \in DOMAIN di :
                   IF di[i].type = "delete" THEN i \notin DOMAIN locItems'
                   ELSE /\ i \in DOMAIN locItems'
                        /\ locItems'[i].categoryId = di[i].categoryId
                        /\ locItems'[i].text = di[i].text
                        /\ locItems'[i].completed = di[i].completed
                        /\ locItems'[i].updatedAt = di[i].timestamp
             /\ \A d \in DOMAIN dc :
                   IF dc[d].type = "delete" THEN d \notin DOMAIN locCats'
                   ELSE d \in DOMAIN locCats' /\ locCats'[d].name = dc[d].name]_vars

\* C26: when a cycle has applied its response, every category that is in
\* the Local Store and whose id is in the response's categoryOrder has
\* sortOrder equal to its index in that list, the categories that arrived in
\* the delta of the same response included.
C26_OrderAppliedToLocalStore ==
    [][\A c \in Cycles : Applies(c) =>
          LET order == cycles[c].resp.categoryOrder
          IN \A k \in 1..Len(order) :
                order[k] \in DOMAIN locCats' => locCats'[order[k]].sortOrder = k - 1]_vars

\* the Worker answers the request of cycle c
Answers(c) ==
    cycles[c].pc = "sending" /\ cycles'[c].pc = "answered" /\ ~cycles'[c].resp.error

\* C27: the categoryOrder of every sync response lists exactly the
\* non-deleted categories of the list, each once, by sortOrder ascending and,
\* among equal sortOrder, by name: the sequence of ids the list and
\* categories read endpoints return for the same state.
C27_OrderSortedWithNameTieBreak ==
    [][\A c \in Cycles : Answers(c) =>
          cycles'[c].resp.categoryOrder \in ReadCategoryOrders(srv', TheList)]_vars

\* the serials of the change records in a queue
QueuedSerials(q) == {q[k].serial : k \in DOMAIN q}

\* the entries of its response an invocation has not written to the Local
\* Store yet
UnappliedWrites(c) ==
    IF cycles[c].pc \in {"answered", "writing"} /\ ~cycles[c].resp.error
       /\ cycles[c].resp.missing = {}
    THEN LET ws == ResponseWrites(cycles[c].resp)
         IN {ws[k] : k \in (cycles[c].k + 1)..Len(ws)}
    ELSE {}

\* the state a closed page leaves replays safely: no change record the server
\* has not applied is missing from the queue, and every response entry not
\* written locally is newer than the stored cursor and in the delta the
\* server computes for that cursor
ReplaysSafely ==
    /\ \A s \in 1..nextSerial : s \in received \/ s \in QueuedSerials(pending')
    /\ \A c \in Cycles : \A w \in UnappliedWrites(c) :
          LET cursor == GetLastSync(meta')
          IN CASE w.op = "item" ->
                     /\ cycles[c].resp.itemChanges[w.id].timestamp > cursor
                     /\ w.id \in DOMAIN DeltaItems(srv', TheList, cursor)
               [] w.op = "category" ->
                     /\ cycles[c].resp.categoryChanges[w.id].timestamp > cursor
                     /\ w.id \in DOMAIN DeltaCats(srv', TheList, cursor)
               [] OTHER -> TRUE

\* C28: a cycle interrupted by page teardown at any point (request sent, any
\* Local Store write of the response, queue commit, cursor write) leaves every
\* change record the server has not applied in the queue, and every delta row
\* not yet applied locally newer than the stored cursor and delivered again.
C28_InterruptedCycleReplays == [][PageTeardown => ReplaysSafely]_vars

\* the invocation c applies a response entry that is tagged delete for id
AppliesDelete(c, changes, id) ==
    /\ Applies(c)
    /\ id \in DOMAIN changes
    /\ changes[id].type = "delete"

\* C29: a record leaves the Local Store physically (LocalDB.deleteItem,
\* LocalDB.deleteCategory) only while a response entry tagged delete for its
\* id is applied; a user delete of an item or of a category leaves its record
\* stored with deleted = true; getItems and getCategories return no record
\* whose deleted flag is set.
C29_RemovalOnlyByDeleteEntries ==
    [][/\ \A i \in DOMAIN locItems \ DOMAIN locItems' :
             \E c \in Cycles : AppliesDelete(c, cycles[c].resp.itemChanges, i)
       /\ \A d \in DOMAIN locCats \ DOMAIN locCats' :
             \E c \in Cycles : AppliesDelete(c, cycles[c].resp.categoryChanges, d)
       /\ \A id \in ItemIds :
             DeleteItem(id) => id \in DOMAIN locItems' /\ locItems'[id].deleted
       /\ \A cid \in CatIds :
             ClientDeleteCategory(cid) => cid \in DOMAIN locCats' /\ locCats'[cid].deleted
       /\ \A i \in GetItems(locItems') : ~locItems'[i].deleted
       /\ LET cs == GetCategories(locCats')
          IN \A k \in 1..Len(cs) : ~locCats'[cs[k].id].deleted]_vars

\* the device holds the tombstone of an item the user deleted, and the
\* default category it started with is gone from the Local Store after the
\* server reported it deleted
C29_Witness ==
    /\ \E i \in DOMAIN locItems : locItems[i].deleted
    /\ DefaultCat \notin DOMAIN locCats
    /\ srv.cats[DefaultCat].deleted

\* the category_id an item record binds: change.categoryId for an add,
\* change.categoryId || null for an update
BoundCategory(ch) ==
    IF ch.type = "update" /\ ch.categoryId = Undef THEN Null ELSE ch.categoryId

\* the request r runs the statement of an item add or update record for a
\* row of the list that exists, and the statement does not throw
OverwritesItem(r) ==
    /\ reqs[r].pc = "writing"
    /\ reqs'[r].k = reqs[r].k + 1
    /\ LET w == reqs[r].writes[reqs[r].k]
       IN /\ w.op = "item"
          /\ w.ch.type \in {"add", "update"}
          /\ w.ch.id \in DOMAIN srv.items
          /\ srv.items[w.ch.id].list = TheList
          /\ ItemBindOk(srv, [w.ch EXCEPT !.categoryId = BoundCategory(w.ch)])

\* C30: the statement of an item add or update record leaves the row with the
\* categoryId, text and completed of that record, all three together, whatever
\* the row held before: after two devices' records for the same item the row
\* is the payload of the record written last and nothing of the other.
C30_WholeRecordOverwrite ==
    [][\A r \in Reqs : OverwritesItem(r) =>
          LET ch == reqs[r].writes[reqs[r].k].ch
          IN /\ srv'.items[ch.id].categoryId = BoundCategory(ch)
             /\ srv'.items[ch.id].text = ch.text
             /\ srv'.items[ch.id].completed = ch.completed]_vars

\* one device's record set completed on x1, the other's changed its category
\* and text; both requests are answered and the row is the second payload,
\* completed not set
C30_Witness ==
    /\ \E r1, r2 \in Reqs :
          /\ reqs[r1].pc = "done" /\ reqs[r1].req.itemChanges = UpdA.itemChanges
          /\ reqs[r2].pc = "done" /\ reqs[r2].req.itemChanges = UpdB.itemChanges
    /\ srv.items["x1"].categoryId = "c1"
    /\ srv.items["x1"].text = "eggs"
    /\ ~srv.items["x1"].completed

\* the records a step has added to the queue
NewRecords == {pending'[k] : k \in {j \in DOMAIN pending' : pending'[j].serial > nextSerial}}

\* the queue has gained a record that describes the Local Store item id as
\* the step left it
ItemDescribed(id) ==
    \E rec \in NewRecords :
       /\ rec.id = id
       /\ IF locItems'[id].deleted THEN rec.type = "delete"
          ELSE /\ rec.type = IF id \in DOMAIN locItems THEN "update" ELSE "add"
               /\ rec.categoryId = locItems'[id].categoryId
               /\ rec.text = locItems'[id].text
               /\ rec.completed = locItems'[id].completed

\* the queue has gained a record that describes the Local Store category id
\* as the step left it
CategoryDescribed(id) ==
    \E rec \in NewRecords :
       IF locCats'[id].deleted THEN rec.type = "category_delete" /\ rec.id = id
       ELSE IF id \notin DOMAIN locCats THEN rec.type = "category_add" /\ rec.id = id
       ELSE rec.type = "category_order"

\* C31: every step of a mutation handler (add, toggle, delete, clear
\* completed, delete category, reorder) that changes a record of the Local
\* Store also adds to the queue a record that describes the change: add,
\* update or delete for an item, category_add, category_delete or
\* category_order for a category.
C31_EveryEditIsQueued ==
    [][MutationStep =>
          /\ \A i \in DOMAIN locItems' :
                (i \notin DOMAIN locItems \/ locItems'[i] # locItems[i]) => ItemDescribed(i)
          /\ \A d \in DOMAIN locCats' :
                (d \notin DOMAIN locCats \/ locCats'[d] # locCats[d]) => CategoryDescribed(d)]_vars

\* C32: the lastSync cursor stored on the device never decreases: every
\* write of it stores a timestamp not older than the one stored before,
\* also when the requests of two cycles overlap and their responses are
\* applied in the other order.
C32_CursorNeverDecreases ==
    [][GetLastSync(meta') >= GetLastSync(meta)]_vars

\* C33: a device whose first successful cycle was answered by request r holds
\* the cursor T of that request; every item and category row of the list
\* whose current version is stamped T or earlier (and so is in no later
\* delta for that cursor) is in the delta of r as it is now, also when other
\* requests stamped in the same tick or before write after r's delta query.
C33_NoWriteMissed ==
    \A r \in Reqs :
        (FinishedSync(r) /\ reqs[r].req.lastSync = Epoch) =>
            /\ \A i \in ItemsAfter(srv, TheList, Epoch) :
                  srv.items[i].updatedAt <= reqs[r].T =>
                     /\ i \in DOMAIN reqs[r].resp.itemChanges
                     /\ reqs[r].resp.itemChanges[i] = DeltaItems(srv, TheList, Epoch)[i]
            /\ \A c \in CatsAfter(srv, TheList, Epoch) :
                  srv.cats[c].updatedAt <= reqs[r].T =>
                     /\ c \in DOMAIN reqs[r].resp.categoryChanges
                     /\ reqs[r].resp.categoryChanges[c] = DeltaCats(srv, TheList, Epoch)[c]

\* the visible items of a store as (id, categoryId, text, completed)
VisibleItems(items) ==
    {<<i, items[i].categoryId, items[i].text, items[i].completed>> : i \in GetItems(items)}

\* the visible categories of a store as (id, name)
VisibleCategories(cats) ==
    {<<c, cats[c].name>> : c \in {d \in DOMAIN cats : ~cats[d].deleted}}

\* the non-deleted rows of a list on the server, in the same shapes
ServerItems(S, listId) ==
    {<<i, S.items[i].categoryId, S.items[i].text, S.items[i].completed>> :
        i \in {j \in DOMAIN S.items : S.items[j].list = listId /\ ~S.items[j].deleted}}

ServerCategories(S, listId) ==
    {<<c, S.cats[c].name>> :
        c \in {d \in DOMAIN S.cats : S.cats[d].list = listId /\ ~S.cats[d].deleted}}

\* the commit of a cycle run at quiescence: the queue was empty when it was
\* drained and is empty now, nothing was edited on the device since, no other
\* invocation is in progress, and no other device has written since the
\* response was computed
QuietCommit(c) ==
    /\ Commits(c)
    /\ cycles[c].drained = <<>>
    /\ cycles[c].edits = {}
    /\ pending = <<>>
    /\ \A d \in Cycles \ {c} : cycles[d].pc = "idle"
    /\ cycles[c].resp.itemChanges =
          DeltaItems(srv, TheList, GetLastSync(cycles[c].cursor0))
    /\ cycles[c].resp.categoryChanges =
          DeltaCats(srv, TheList, GetLastSync(cycles[c].cursor0))

\* C34: when the devices have stopped editing, the device's queue is empty
\* and one more cycle has run and committed, the visible items (id,
\* categoryId, text, completed) and visible categories (id, name) of the
\* Local Store are the server's non-deleted rows of the list.
C34_ConvergesAtQuiescence ==
    [][\A c \in Cycles : QuietCommit(c) =>
          /\ VisibleItems(locItems') = ServerItems(srv', TheList)
          /\ VisibleCategories(locCats') = ServerCategories(srv', TheList)]_vars

\* C35: a sync request addressed to a list leaves every item row and every
\* category row of every other list exactly as it was, also when a change
\* record of the batch carries the id of a row of another list.
C35_ServerListIsolation ==
    [][(call'.n # call.n /\ call'.kind = "sync") =>
          /\ \A i \in DOMAIN srv.items :
                srv.items[i].list # call'.list =>
                   i \in DOMAIN srv'.items /\ srv'.items[i] = srv.items[i]
          /\ \A c \in DOMAIN srv.cats :
                srv.cats[c].list # call'.list =>
                   c \in DOMAIN srv'.cats /\ srv'.cats[c] = srv.cats[c]]_vars

\* the invocation c sends its request
Sends(c) == cycles[c].pc = "idle" /\ cycles'[c].pc = "sending"

\* C36: every change record of a request is for an item created while the
\* list the request is sent to was current, and the cursor of the request is
\* 1970-01-01 or the timestamp of a response the device received from that
\* list's endpoint before, across opening and switching lists.
C36_ClientListIsolation ==
    [][\A c \in Cycles : Sends(c) =>
          /\ \A k \in 1..Len(cycles'[c].drained) :
                HomeList[cycles'[c].drained[k].id] = cycles'[c].list
          /\ \/ cycles'[c].req.lastSync = Epoch
             \/ <<cycles'[c].list, cycles'[c].req.lastSync>> \in heard]_vars

\* the last record for id in a list of item change records
LastFor(recs, id) ==
    recs[CHOOSE k \in 1..Len(recs) :
            /\ recs[k].id = id
            /\ \A j \in 1..Len(recs) : recs[j].id = id => j <= k]

\* the row of id is as the record rec leaves it (a statement that throws on
\* its bind leaves the row alone)
RowAsRecord(S, rec) ==
    IF rec.type = "delete"
    THEN rec.id \in DOMAIN S.items => S.items[rec.id].deleted
    ELSE (ItemBindOk(S, [rec EXCEPT !.categoryId = BoundCategory(rec)])
          /\ rec.id \in DOMAIN S.items) =>
             /\ S.items[rec.id].categoryId = BoundCategory(rec)
             /\ S.items[rec.id].text = rec.text
             /\ S.items[rec.id].completed = rec.completed

\* C37: the item change records of a request are the drained item records in
\* the order they were enqueued, and when the server has applied the batch
\* the row of every id in it is as the last record for that id leaves it
\* (deleted after a delete, the record's fields otherwise).
C37_BatchOrderEndToEnd ==
    [][\A c \in Cycles : Answers(c) =>
          LET sent == cycles[c].req.itemChanges
              enq  == SelectSeq(InsertionOrder(cycles[c].drained),
                                LAMBDA p : ~IsCategoryType(p.type))
          IN /\ sent = enq
             /\ \A k \in 1..Len(sent) : RowAsRecord(srv', LastFor(sent, sent[k].id))]_vars

\* the Worker has answered a sync request of a caller with access
AnswersSync == call'.n # call.n /\ call'.kind = "sync" /\ call'.access

\* C38: a sync request applies its category records, then its order list,
\* then its item records, then reads the delta: every category of the list
\* named once in the order list ends with its index as sortOrder whatever
\* sortOrder a category record of the batch carries, an item record that
\* names a category added by the batch is applied, and every row the request
\* wrote is in the delta of its response.
C38_CategoriesOrderItemsDelta ==
    [][AnswersSync =>
          LET req   == call'.req
              order == req.categoryOrder
          IN /\ \A k \in 1..Len(order) :
                   (/\ order[k] \in DOMAIN srv'.cats
                    /\ srv'.cats[order[k]].list = call'.list
                    /\ \A j \in 1..Len(order) : order[j] = order[k] => j = k)
                   => srv'.cats[order[k]].sortOrder = k - 1
             /\ \A i \in DOMAIN srv'.items :
                   (i \notin DOMAIN srv.items \/ srv'.items[i] # srv.items[i])
                   => i \in DOMAIN call'.resp.itemChanges
             /\ \A c \in DOMAIN srv'.cats :
                   (c \notin DOMAIN srv.cats \/ srv'.cats[c] # srv.cats[c])
                   => c \in DOMAIN call'.resp.categoryChanges]_vars

\* C39: the table of shares changes only by a share or unshare request of
\* the list's owner and only in rows of that list; no row names the owner of
\* its list, and a share request for a user who already has a row is refused
\* and adds nothing; a sync request of a user whose share was removed (and
\* not granted again since) is refused and writes nothing.
C39_AccessChanges ==
    [][/\ listShares' # listShares =>
            /\ call'.kind \in {"share", "unshare"}
            /\ call'.list \in DOMAIN ListOwner
            /\ call'.user = ListOwner[call'.list]
            /\ \A p \in (listShares' \ listShares) \cup (listShares \ listShares') :
                  p = <<call'.list, call'.target>>
       /\ \A p \in listShares' : ListOwner[p[1]] # p[2]
       /\ (served' # served /\ call'.kind = "share"
              /\ <<call'.list, call'.target>> \in listShares)
             => call'.resp.error /\ listShares' = listShares
       /\ (served' # served /\ call'.kind = "unshare" /\ ~call'.resp.error)
             => <<call'.list, call'.target>> \notin listShares'
       /\ (call'.n # call.n /\ call'.kind = "sync"
              /\ <<call'.list, call'.user>> \in call.revoked)
             => ~call'.access /\ srv' = srv]_vars

\* the owner removed u2's share, and u2's batch that adds an item was refused
C39_Witness ==
    /\ call.kind = "sync"
    /\ <<call.list, call.user>> \in call.revoked
    /\ <<call.list, call.user>> \notin listShares
    /\ Len(call.req.itemChanges) > 0
    /\ ~call.access
    /\ srv = call.before

\* the ids of the categories getCategories returns
VisibleCategoryIds(cats) == {d \in DOMAIN cats : ~cats[d].deleted}

\* C40: when a cycle has ended successfully, every item that getItems
\* returns has categoryId null or the id of a category that is in the Local
\* Store and not deleted; after a delta removed a category locally no such
\* item still names it.
C40_LocalReferentialIntegrity ==
    [][\A c \in Cycles : Commits(c) =>
          \A i \in GetItems(locItems') :
              \/ locItems'[i].categoryId = Null
              \/ locItems'[i].categoryId \in VisibleCategoryIds(locCats')]_vars

====
